---- MODULE Spec2Model ----
(***************************************************************************)
(* Model of the two document converters of ArrowReg-iOS:                   *)
(*   data-local/abs_part7_pdf_parser.py   (text pipeline, ABSPart7Parser)  *)
(*   data-local/ecfr_xml_to_markdown.py   (tree pipeline,                  *)
(*                                         ECFRToMarkdownConverter)        *)
(* A Python str is a sequence of one-character strings.  Regular           *)
(* expressions are syntax trees run by a backtracking matcher that tries   *)
(* the alternatives in the order Python's re module tries them.            *)
(***************************************************************************)
EXTENDS Integers, Sequences, FiniteSets, TLC

----------------------------------------------------------------------------
(* Characters *)

Digits == {"0", "1", "2", "3", "4", "5", "6", "7", "8", "9"}

UpperSeq == <<"A", "B", "C", "D", "E", "F", "G", "H", "I", "J", "K", "L", "M",
              "N", "O", "P", "Q", "R", "S", "T", "U", "V", "W", "X", "Y", "Z">>

LowerSeq == <<"a", "b", "c", "d", "e", "f", "g", "h", "i", "j", "k", "l", "m",
              "n", "o", "p", "q", "r", "s", "t", "u", "v", "w", "x", "y", "z">>

Uppers == {UpperSeq[i] : i \in DOMAIN UpperSeq}

Lowers == {LowerSeq[i] : i \in DOMAIN LowerSeq}

\* str.lower() on one character
Lower(c) ==
    IF c \in Uppers
    THEN LowerSeq[CHOOSE i \in DOMAIN UpperSeq : UpperSeq[i] = c]
    ELSE c

\* str.upper() on one character
Upper(c) ==
    IF c \in Lowers
    THEN UpperSeq[CHOOSE i \in DOMAIN LowerSeq : LowerSeq[i] = c]
    ELSE c

\* \w of the re module (ASCII part)
WordChars == Digits \cup Uppers \cup Lowers \cup {"_"}

\* \s of the re module (ASCII part)
SpaceChars == {" ", "\t", "\n", "\r", "\f"}

----------------------------------------------------------------------------
(* Regular expressions.  A syntax tree node is a record with a field t:     *)
(*   chr  one given character            set  one character of a set       *)
(*   d s w  the classes \d \s \w         dot  any character but "\n"       *)
(*   seq  r1 r2 ...                      alt  r1|r2|...                    *)
(*   star r* (lazy: r*?)                 plus r+ (lazy: r+?)               *)
(*   grp  capture group n                bol eol wb  the assertions ^ $ \b *)
(*   chk  (internal) fails when no character was consumed since position  *)
(*        at: what stops r* from repeating an empty match                  *)

RChr(c) == [t |-> "chr", c |-> c]

RSet(S) == [t |-> "set", S |-> S]

RD == [t |-> "d"]

RS == [t |-> "s"]

RW == [t |-> "w"]

RDot == [t |-> "dot"]

RSeq(rs) == [t |-> "seq", rs |-> rs]

RAlt(rs) == [t |-> "alt", rs |-> rs]

RStar(r) == [t |-> "star", r |-> r, lazy |-> FALSE]

RStarLazy(r) == [t |-> "star", r |-> r, lazy |-> TRUE]

RPlus(r) == [t |-> "plus", r |-> r, lazy |-> FALSE]

RPlusLazy(r) == [t |-> "plus", r |-> r, lazy |-> TRUE]

RGrp(n, r) == [t |-> "grp", n |-> n, r |-> r]

RBol == [t |-> "bol"]

REol == [t |-> "eol"]

RWb == [t |-> "wb"]

\* a literal word, character by character
RLit(w) == RSeq([i \in DOMAIN w |-> RChr(w[i])])

\* Flags of a match: ic = re.IGNORECASE, ml = re.MULTILINE
NoFlags == [ic |-> FALSE, ml |-> FALSE]

IgnoreCase == [ic |-> TRUE, ml |-> FALSE]

MultiLine == [ic |-> FALSE, ml |-> TRUE]

\* no group has matched: every group spans <<0, 0>>
NoGroups == [n \in 1..2 |-> <<0, 0>>]

MatchFail == [ok |-> FALSE, pos |-> 0, g |-> NoGroups]

\* whether the single-character node r accepts the character c
CharOk(r, c, fl) ==
    CASE r.t = "chr" -> IF fl.ic THEN Lower(c) = Lower(r.c) ELSE c = r.c
      [] r.t = "set" -> IF fl.ic
                        THEN c \in r.S \/ Lower(c) \in r.S \/ Upper(c) \in r.S
                        ELSE c \in r.S
      [] r.t = "d"   -> c \in Digits
      [] r.t = "s"   -> c \in SpaceChars
      [] r.t = "w"   -> c \in WordChars
      [] r.t = "dot" -> c # "\n"

IsWordAt(s, i) == i >= 1 /\ i <= Len(s) /\ s[i] \in WordChars

\* whether the zero-width node r holds before the character at position i
AssertOk(r, s, i, fl) ==
    CASE r.t = "bol" -> i = 1 \/ (fl.ml /\ s[i - 1] = "\n")
      [] r.t = "eol" -> \/ i = Len(s) + 1
                        \/ (i = Len(s) /\ s[i] = "\n")
                        \/ (fl.ml /\ s[i] = "\n")
      [] r.t = "wb"  -> IsWordAt(s, i - 1) # IsWordAt(s, i)

\* The backtracking matcher.  todo is the sequence of nodes still to match
\* from position i of s (the continuation); g holds the groups matched so
\* far.  The result is the first success in the order the re module tries
\* the alternatives, or MatchFail.
RECURSIVE Run(_, _, _, _, _)
Run(todo, s, i, g, fl) ==
    IF todo = <<>> THEN [ok |-> TRUE, pos |-> i, g |-> g]
    ELSE
    LET r == Head(todo)
        rest == Tail(todo)
    IN
    CASE r.t \in {"chr", "set", "d", "s", "w", "dot"} ->
           IF i <= Len(s) /\ CharOk(r, s[i], fl)
           THEN Run(rest, s, i + 1, g, fl)
           ELSE MatchFail
      [] r.t \in {"bol", "eol", "wb"} ->
           IF AssertOk(r, s, i, fl) THEN Run(rest, s, i, g, fl) ELSE MatchFail
      [] r.t = "seq" -> Run(r.rs \o rest, s, i, g, fl)
      [] r.t = "alt" ->
           IF r.rs = <<>> THEN MatchFail
           ELSE LET first == Run(<<Head(r.rs)>> \o rest, s, i, g, fl)
                IN IF first.ok THEN first
                   ELSE Run(<<RAlt(Tail(r.rs))>> \o rest, s, i, g, fl)
      [] r.t = "star" ->
           LET more == <<r.r, [t |-> "chk", at |-> i], r>> \o rest
           IN IF r.lazy
              THEN LET stop == Run(rest, s, i, g, fl)
                   IN IF stop.ok THEN stop ELSE Run(more, s, i, g, fl)
              ELSE LET again == Run(more, s, i, g, fl)
                   IN IF again.ok THEN again ELSE Run(rest, s, i, g, fl)
      [] r.t = "plus" ->
           Run(<<r.r, [t |-> "star", r |-> r.r, lazy |-> r.lazy]>> \o rest,
               s, i, g, fl)
      [] r.t = "chk" -> IF i > r.at THEN Run(rest, s, i, g, fl) ELSE MatchFail
      [] r.t = "grp" ->
           Run(<<[t |-> "gs", n |-> r.n], r.r, [t |-> "ge", n |-> r.n]>> \o rest,
               s, i, g, fl)
      [] r.t = "gs"  -> Run(rest, s, i, [g EXCEPT ![r.n] = <<i, 0>>], fl)
      [] r.t = "ge"  -> Run(rest, s, i, [g EXCEPT ![r.n] = <<g[r.n][1], i>>], fl)

\* re.match(pattern, s, flags): a match starting at the first character
ReMatch(re, s, fl) == Run(<<re>>, s, 1, NoGroups, fl)

\* match.group(n): the text of group n
Group(m, s, n) == SubSeq(s, m.g[n][1], m.g[n][2] - 1)

\* the replacement template of re.sub expanded for the match m that started
\* at position i: "\\1" and "\\2" stand for the groups, "\\0" for the whole
\* match, any other item is a literal character
RECURSIVE Expand(_, _, _, _)
Expand(repl, m, s, i) ==
    IF repl = <<>> THEN <<>>
    ELSE (CASE Head(repl) = "\\0" -> SubSeq(s, i, m.pos - 1)
            [] Head(repl) = "\\1" -> Group(m, s, 1)
            [] Head(repl) = "\\2" -> Group(m, s, 2)
            [] OTHER -> <<Head(repl)>>)
         \o Expand(Tail(repl), m, s, i)

\* the least element of a non-empty set of integers
Min(S) == CHOOSE x \in S : \A y \in S : x <= y

\* the greatest element of a non-empty set of integers
Max(S) == CHOOSE x \in S : \A y \in S : x >= y

\* re.sub(pattern, repl, s, flags): the leftmost non-overlapping matches are
\* replaced, scanning from position i.  The scan goes on to the first
\* position p >= i where the pattern matches; an empty match is replaced too
\* and the scan then moves on by one character.
RECURSIVE SubFrom(_, _, _, _, _)
SubFrom(re, repl, s, i, fl) ==
    LET starts == {p \in i..(Len(s) + 1) : Run(<<re>>, s, p, NoGroups, fl).ok}
    IN IF starts = {} THEN SubSeq(s, i, Len(s))
       ELSE LET p == Min(starts)
                m == Run(<<re>>, s, p, NoGroups, fl)
            IN SubSeq(s, i, p - 1) \o Expand(repl, m, s, p)
               \o (IF m.pos > p THEN SubFrom(re, repl, s, m.pos, fl)
                   ELSE IF p <= Len(s)
                        THEN <<s[p]>> \o SubFrom(re, repl, s, p + 1, fl)
                        ELSE <<>>)

ReSub(re, repl, s, fl) == SubFrom(re, repl, s, 1, fl)

----------------------------------------------------------------------------
(* str helpers *)

\* str.strip(): leading and trailing whitespace removed
Strip(s) ==
    LET keep == {i \in DOMAIN s : s[i] \notin SpaceChars}
    IN IF keep = {} THEN <<>> ELSE SubSeq(s, Min(keep), Max(keep))

\* sep.join(parts)
RECURSIVE Join(_, _)
Join(sep, parts) ==
    IF parts = <<>> THEN <<>>
    ELSE IF Len(parts) = 1 THEN parts[1]
    ELSE parts[1] \o sep \o Join(sep, Tail(parts))

\* s.split("\n"): the pieces between the line breaks, always at least one
SplitLines(s) ==
    LET breaks == {i \in DOMAIN s : s[i] = "\n"}
        n == Cardinality(breaks)
        \* the k-th line break; 0 before the first, Len(s) + 1 after the last
        at(k) == IF k = 0 THEN 0
                 ELSE IF k = n + 1 THEN Len(s) + 1
                 ELSE CHOOSE p \in breaks : Cardinality({q \in breaks : q < p}) = k - 1
    IN [k \in 1..(n + 1) |-> SubSeq(s, at(k - 1) + 1, at(k) - 1)]

\* c * n: the character c repeated n times
Repeat(c, n) == [i \in 1..n |-> c]

NL == <<"\n">>

----------------------------------------------------------------------------
(* ABSPart7Parser: the pattern table of identify_sections *)

\* 'CHAPTER '
W_CHAPTER == <<"C", "H", "A", "P", "T", "E", "R", " ">>

\* 'SECTION '
W_SECTION == <<"S", "E", "C", "T", "I", "O", "N", " ">>

\* 'TABLE '
W_TABLE == <<"T", "A", "B", "L", "E", " ">>

\* 'FIGURE '
W_FIGURE == <<"F", "I", "G", "U", "R", "E", " ">>

\* the class [-...] of the table and figure patterns: the hyphen (the file
\* lists three more characters, all outside ASCII)
DashChars == {"-"}

\* (.+?)$ : the title, group 2
TitleToEnd == RSeq(<<RGrp(2, RPlusLazy(RDot)), REol>>)

\* \d+(?:\.\d+)*
DottedNumber == RSeq(<<RPlus(RD), RStar(RSeq(<<RChr("."), RPlus(RD)>>))>>)

\* ^CHAPTER (\d+)\s+(.+?)$
PatChapter == RSeq(<<RBol, RLit(W_CHAPTER), RGrp(1, RPlus(RD)), RPlus(RS), TitleToEnd>>)

\* ^SECTION (\d+)\s+(.+?)$
PatSection == RSeq(<<RBol, RLit(W_SECTION), RGrp(1, RPlus(RD)), RPlus(RS), TitleToEnd>>)

\* PatMainSection with the number running up to the first space:
\* ^(\d+)\S*\s+(.+?)$
PatMainSection_Loose ==
    RSeq(<<RBol, RGrp(1, RPlus(RD)), RStar(RSet(Digits \cup {"."})), RPlus(RS),
           TitleToEnd>>)

\* ^(\d+)\s+(.+?)$
PatMainSection == RSeq(<<RBol, RGrp(1, RPlus(RD)), RPlus(RS), TitleToEnd>>)

\* ^(\d+\.\d+)\s+(.+?)$
PatSubsection ==
    RSeq(<<RBol, RGrp(1, RSeq(<<RPlus(RD), RChr("."), RPlus(RD)>>)), RPlus(RS), TitleToEnd>>)

\* ^(\d+\.\d+\.\d+)\s+(.+?)$
PatSubsubsection ==
    RSeq(<<RBol,
           RGrp(1, RSeq(<<RPlus(RD), RChr("."), RPlus(RD), RChr("."), RPlus(RD)>>)),
           RPlus(RS), TitleToEnd>>)

\* ^([A-Z])\.\s+(.+?)$
PatItem == RSeq(<<RBol, RGrp(1, RSet(Uppers)), RChr("."), RPlus(RS), TitleToEnd>>)

\* ^TABLE (\d+(?:\.\d+)*)\s*[-...]\s*(.+?)$
PatTable ==
    RSeq(<<RBol, RLit(W_TABLE), RGrp(1, DottedNumber), RStar(RS), RSet(DashChars),
           RStar(RS), TitleToEnd>>)

\* ^FIGURE (\d+(?:\.\d+)*)\s*[-...]\s*(.+?)$
PatFigure ==
    RSeq(<<RBol, RLit(W_FIGURE), RGrp(1, DottedNumber), RStar(RS), RSet(DashChars),
           RStar(RS), TitleToEnd>>)

\* patterns: the (pattern, section_type) pairs in the order of the source
patterns ==
    << [re |-> PatChapter,       type |-> "chapter"],
       [re |-> PatSection,       type |-> "section"],
       [re |-> PatMainSection,   type |-> "main_section"],
       [re |-> PatSubsection,    type |-> "subsection"],
       [re |-> PatSubsubsection, type |-> "subsubsection"],
       [re |-> PatItem,          type |-> "item"],
       [re |-> PatTable,         type |-> "table"],
       [re |-> PatFigure,        type |-> "figure"] >>

NoMatch == [matched |-> FALSE, type |-> "", number |-> <<>>, title |-> <<>>]

\* the inner loop of identify_sections: the first pattern, from the k-th on,
\* that re.match accepts for the stripped line, with its two groups
RECURSIVE MatchFrom(_, _)
MatchFrom(line, k) ==
    IF k > Len(patterns) THEN NoMatch
    ELSE LET m == ReMatch(patterns[k].re, line, IgnoreCase)
         IN IF m.ok
            THEN [matched |-> TRUE, type |-> patterns[k].type,
                  number |-> Group(m, line, 1), title |-> Group(m, line, 2)]
            ELSE MatchFrom(line, k + 1)

MatchLine(line) == MatchFrom(line, 1)

----------------------------------------------------------------------------
(* ABSPart7Parser.format_content *)

\* the class [-...] of the bullet pattern: the hyphen (the file lists three
\* more characters, all outside ASCII)
BulletChars == {"-"}

\* 'Section '
W_Section == <<"S", "e", "c", "t", "i", "o", "n", " ">>

\* 'Chapter '
W_Chapter == <<"C", "h", "a", "p", "t", "e", "r", " ">>

\* 'shall'
W_shall == <<"s", "h", "a", "l", "l">>

\* 'must'
W_must == <<"m", "u", "s", "t">>

\* 'required'
W_required == <<"r", "e", "q", "u", "i", "r", "e", "d">>

\* 'mandatory'
W_mandatory == <<"m", "a", "n", "d", "a", "t", "o", "r", "y">>

\* 'may'
W_may == <<"m", "a", "y">>

\* 'optional'
W_optional == <<"o", "p", "t", "i", "o", "n", "a", "l">>

\* 'recommended'
W_recommended == <<"r", "e", "c", "o", "m", "m", "e", "n", "d", "e", "d">>

\* ^[-...]\s+
PatBullet == RSeq(<<RBol, RSet(BulletChars), RPlus(RS)>>)

\* ^\s*\([a-z]\)\s+
PatLetterItem ==
    RSeq(<<RBol, RStar(RS), RChr("("), RSet(Lowers), RChr(")"), RPlus(RS)>>)

\* ^\s*\d+\)\s+
PatNumberItem == RSeq(<<RBol, RStar(RS), RPlus(RD), RChr(")"), RPlus(RS)>>)

\* \b(\d+\.\d+\.\d+)\b
PatCrossRef ==
    RSeq(<<RWb,
           RGrp(1, RSeq(<<RPlus(RD), RChr("."), RPlus(RD), RChr("."), RPlus(RD)>>)),
           RWb>>)

\* \b(Section \d+)\b
PatSectionRef == RSeq(<<RWb, RGrp(1, RSeq(<<RLit(W_Section), RPlus(RD)>>)), RWb>>)

\* \b(Chapter \d+)\b
PatChapterRef == RSeq(<<RWb, RGrp(1, RSeq(<<RLit(W_Chapter), RPlus(RD)>>)), RWb>>)

\* \b(shall|must|required|mandatory)\b
PatMandatory ==
    RSeq(<<RWb,
           RGrp(1, RAlt(<<RLit(W_shall), RLit(W_must), RLit(W_required),
                          RLit(W_mandatory)>>)),
           RWb>>)

\* \b(may|optional|recommended)\b
PatPermissive ==
    RSeq(<<RWb,
           RGrp(1, RAlt(<<RLit(W_may), RLit(W_optional), RLit(W_recommended)>>)),
           RWb>>)

\* r'**\1**'
ReplBold == <<"*", "*", "\\1", "*", "*">>

\* r'*\1*'
ReplItalic == <<"*", "\\1", "*">>

\* the three list substitutions
FormatLists(content) ==
    LET c1 == ReSub(PatBullet, <<"-", " ">>, content, MultiLine)
        c2 == ReSub(PatLetterItem, <<" ", " ", "-", " ">>, c1, MultiLine)
    IN ReSub(PatNumberItem, <<" ", " ", "1", ".", " ">>, c2, MultiLine)

\* FormatReferences with the substitutions left out
FormatReferences_Skipped(content) == content

\* the three reference substitutions
FormatReferences(content) ==
    LET c1 == ReSub(PatCrossRef, ReplBold, content, NoFlags)
        c2 == ReSub(PatSectionRef, ReplBold, c1, NoFlags)
    IN ReSub(PatChapterRef, ReplBold, c2, NoFlags)

\* FormatEmphasis matching the words in lower case only (the flag left out)
FormatEmphasis_CaseSensitive(content) ==
    LET c1 == ReSub(PatMandatory, ReplBold, content, NoFlags)
    IN ReSub(PatPermissive, ReplItalic, c1, NoFlags)

\* the two emphasis substitutions
FormatEmphasis(content) ==
    LET c1 == ReSub(PatMandatory, ReplBold, content, IgnoreCase)
    IN ReSub(PatPermissive, ReplItalic, c1, IgnoreCase)

format_content(content) == FormatEmphasis(FormatReferences(FormatLists(content)))

----------------------------------------------------------------------------
(* ABSPart7Parser.clean_text *)

\* 'Page '
W_Page == <<"P", "a", "g", "e", " ">>

\* 'ABS'
W_ABS == <<"A", "B", "S">>

\* 'PART 7'
W_PART7 == <<"P", "A", "R", "T", " ", "7">>

\* \n\s*\n\s*\n
PatBlankRun == RSeq(<<RChr("\n"), RStar(RS), RChr("\n"), RStar(RS), RChr("\n")>>)

\* [ \t]+
PatHSpace == RPlus(RSet({" ", "\t"}))

\* (\w+)-\s*\n\s*(\w+)
PatHyphenBreak ==
    RSeq(<<RGrp(1, RPlus(RW)), RChr("-"), RStar(RS), RChr("\n"), RStar(RS),
           RGrp(2, RPlus(RW))>>)

\* \n\s*Page \d+.*?\n
PatPageLine ==
    RSeq(<<RChr("\n"), RStar(RS), RLit(W_Page), RPlus(RD), RStarLazy(RDot), RChr("\n")>>)

\* \n\s*ABS.*?\n
PatAbsLine == RSeq(<<RChr("\n"), RStar(RS), RLit(W_ABS), RStarLazy(RDot), RChr("\n")>>)

\* \n\s*PART 7.*?\n
PatPartLine == RSeq(<<RChr("\n"), RStar(RS), RLit(W_PART7), RStarLazy(RDot), RChr("\n")>>)

clean_text(text) ==
    LET t1 == ReSub(PatBlankRun, <<"\n", "\n">>, text, NoFlags)
        t2 == ReSub(PatHSpace, <<" ">>, t1, NoFlags)
        t3 == ReSub(PatHyphenBreak, <<"\\1", "\\2">>, t2, NoFlags)
        t4 == ReSub(PatPageLine, NL, t3, NoFlags)
        t5 == ReSub(PatAbsLine, NL, t4, NoFlags)
        t6 == ReSub(PatPartLine, NL, t5, NoFlags)
    IN Strip(t6)

----------------------------------------------------------------------------
(* ABSPart7Parser.identify_sections *)

\* The dict built for a matched heading line.  head_at and content_at are
\* bookkeeping of the model, not keys of the dict: the index in lines of the
\* heading line and of the lines that make up content.
NewSection(m, line, k) ==
    [type |-> m.type, number |-> m.number, title |-> Strip(m.title),
     content |-> <<>>, full_header |-> line, head_at |-> k, content_at |-> <<>>]

\* "if current_section and content_buffer": an open unit and a buffer that
\* holds at least one line
ShouldSave(current_section, content_buffer) ==
    current_section # <<>> /\ content_buffer # <<>>

\* current_section['content'] = '\n'.join(content_buffer).strip()
CloseSection(section, content_buffer, buffer_at) ==
    [section EXCEPT !.content = Strip(Join(NL, content_buffer)),
                    !.content_at = buffer_at]

\* SaveSection putting the unit in front: sections.insert(0, current_section)
SaveSection_InFront(sections, section) == <<section>> \o sections

\* sections.append(current_section)
SaveSection(sections, section) == Append(sections, section)

\* the state of the loop: current_section is <<>> (None) or <<dict>>
SegInit ==
    [current_section |-> <<>>, content_buffer |-> <<>>, buffer_at |-> <<>>,
     sections |-> <<>>]

\* ScanLine keeping the buffer at a heading line met while no unit is open
ScanLine_KeepBuffer(st, raw, k) ==
    LET line == Strip(raw)
        m == MatchLine(line)
    IN IF line = <<>> THEN st
       ELSE IF m.matched
       THEN [current_section |-> <<NewSection(m, line, k)>>,
             content_buffer |-> IF st.current_section = <<>> THEN st.content_buffer
                                ELSE <<>>,
             buffer_at |-> IF st.current_section = <<>> THEN st.buffer_at ELSE <<>>,
             sections |->
                 IF ShouldSave(st.current_section, st.content_buffer)
                 THEN SaveSection(st.sections,
                                  CloseSection(st.current_section[1],
                                               st.content_buffer, st.buffer_at))
                 ELSE st.sections]
       ELSE [st EXCEPT !.content_buffer = Append(@, line),
                       !.buffer_at = Append(@, k)]

\* one iteration of "for line in lines", for the k-th line
ScanLine(st, raw, k) ==
    LET line == Strip(raw)
        m == MatchLine(line)
    IN IF line = <<>> THEN st
       ELSE IF m.matched
       THEN [current_section |-> <<NewSection(m, line, k)>>,
             content_buffer |-> <<>>,
             buffer_at |-> <<>>,
             sections |->
                 IF ShouldSave(st.current_section, st.content_buffer)
                 THEN SaveSection(st.sections,
                                  CloseSection(st.current_section[1],
                                               st.content_buffer, st.buffer_at))
                 ELSE st.sections]
       ELSE [st EXCEPT !.content_buffer = Append(@, line),
                       !.buffer_at = Append(@, k)]

\* FlushLast without the flush: return sections as the loop left it
FlushLast_Dropped(st) == st.sections

\* "Don't forget the last section": what identify_sections returns
FlushLast(st) ==
    IF ShouldSave(st.current_section, st.content_buffer)
    THEN SaveSection(st.sections,
                     CloseSection(st.current_section[1], st.content_buffer,
                                  st.buffer_at))
    ELSE st.sections

RECURSIVE ScanFrom(_, _, _)
ScanFrom(st, lines, k) ==
    IF k > Len(lines) THEN st ELSE ScanFrom(ScanLine(st, lines[k], k), lines, k + 1)

identify_sections(text) == FlushLast(ScanFrom(SegInit, SplitLines(text), 1))

----------------------------------------------------------------------------
(* ABSPart7Parser.format_for_vector_storage *)

\* '# ABS Rules for Survey After Construction - Part 7\n'
DOC_HEADER == <<"#", " ", "A", "B", "S", " ", "R", "u", "l", "e", "s", " ",
                "f", "o", "r", " ", "S", "u", "r", "v", "e", "y", " ", "A",
                "f", "t", "e", "r", " ", "C", "o", "n", "s", "t", "r", "u",
                "c", "t", "i", "o", "n", " ", "-", " ", "P", "a", "r", "t",
                " ", "7", "\n">>

\* '*American Bureau of Shipping Classification Rules*\n'
DOC_SUBHEADER == <<"*", "A", "m", "e", "r", "i", "c", "a", "n", " ", "B",
                   "u", "r", "e", "a", "u", " ", "o", "f", " ", "S", "h",
                   "i", "p", "p", "i", "n", "g", " ", "C", "l", "a", "s",
                   "s", "i", "f", "i", "c", "a", "t", "i", "o", "n", " ",
                   "R", "u", "l", "e", "s", "*", "\n">>

\* '# Chapter '
H_Chapter == <<"#", " ", "C", "h", "a", "p", "t", "e", "r", " ">>

\* '## Section '
H_Section == <<"#", "#", " ", "S", "e", "c", "t", "i", "o", "n", " ">>

\* '### Table '
H_Table == <<"#", "#", "#", " ", "T", "a", "b", "l", "e", " ">>

\* '### Figure '
H_Figure == <<"#", "#", "#", " ", "F", "i", "g", "u", "r", "e", " ">>

\* Heading with the table and figure headings one level deeper
Heading_TableDeeper(section) ==
    LET number == section.number
        title == section.title
    IN CASE section.type = "chapter" -> H_Chapter \o number \o <<":", " ">> \o title
         [] section.type = "section" -> H_Section \o number \o <<":", " ">> \o title
         [] section.type = "main_section" ->
                Repeat("#", 3) \o <<" ">> \o number \o <<" ">> \o title
         [] section.type = "subsection" ->
                Repeat("#", 4) \o <<" ">> \o number \o <<" ">> \o title
         [] section.type = "subsubsection" ->
                Repeat("#", 5) \o <<" ">> \o number \o <<" ">> \o title
         [] section.type = "table" -> <<"#">> \o H_Table \o number \o <<" ", "-", " ">> \o title
         [] section.type = "figure" -> <<"#">> \o H_Figure \o number \o <<" ", "-", " ">> \o title
         [] section.type = "item" ->
                <<"*", "*">> \o number \o <<".", "*", "*", " ">> \o title
         [] OTHER -> Repeat("#", 3) \o <<" ">> \o section.full_header

\* the heading of one unit
Heading(section) ==
    LET number == section.number
        title == section.title
    IN CASE section.type = "chapter" -> H_Chapter \o number \o <<":", " ">> \o title
         [] section.type = "section" -> H_Section \o number \o <<":", " ">> \o title
         [] section.type = "main_section" ->
                Repeat("#", 3) \o <<" ">> \o number \o <<" ">> \o title
         [] section.type = "subsection" ->
                Repeat("#", 4) \o <<" ">> \o number \o <<" ">> \o title
         [] section.type = "subsubsection" ->
                Repeat("#", 5) \o <<" ">> \o number \o <<" ">> \o title
         [] section.type = "table" -> H_Table \o number \o <<" ", "-", " ">> \o title
         [] section.type = "figure" -> H_Figure \o number \o <<" ", "-", " ">> \o title
         [] section.type = "item" ->
                <<"*", "*">> \o number \o <<".", "*", "*", " ">> \o title
         [] OTHER -> Repeat("#", 3) \o <<" ">> \o section.full_header

\* An entry of markdown_content.  unit is bookkeeping of the model: the
\* position in sections of the unit the entry was made from, 0 for the
\* document header.
Entry(text, unit) == [text |-> text, unit |-> unit]

\* the two header entries
RenderHeader == <<Entry(DOC_HEADER, 0), Entry(DOC_SUBHEADER, 0)>>

\* one iteration of "for section in sections", for the j-th unit
RenderSection(markdown_content, section, j) ==
    LET withHeading ==
            Append(markdown_content, Entry(NL \o Heading(section) \o NL, j))
    IN IF section.content # <<>>
       THEN Append(withHeading, Entry(format_content(section.content) \o NL, j))
       ELSE withHeading

\* '\n'.join(markdown_content)
RenderJoin(markdown_content) ==
    Join(NL, [i \in DOMAIN markdown_content |-> markdown_content[i].text])

RECURSIVE RenderFrom(_, _, _)
RenderFrom(markdown_content, sections, j) ==
    IF j > Len(sections) THEN markdown_content
    ELSE RenderFrom(RenderSection(markdown_content, sections[j], j), sections, j + 1)

format_for_vector_storage(sections) == RenderJoin(RenderFrom(RenderHeader, sections, 1))

----------------------------------------------------------------------------
(* xml.etree.ElementTree elements as the converter reads them.  An element  *)
(* is a record: tag, attrs (a sequence of <<name, value>> pairs), text (the *)
(* text before the first child, <<>> for None), kids (the child elements   *)
(* in document order) and tail (the text after the element, <<>> for None).*)

Elem(tag, attrs, txt, kids, tail) ==
    [tag |-> tag, attrs |-> attrs, text |-> txt, kids |-> kids, tail |-> tail]

\* element.get(name, default)
Get(element, name, default) ==
    IF \E i \in DOMAIN element.attrs : element.attrs[i][1] = name
    THEN element.attrs[CHOOSE i \in DOMAIN element.attrs : element.attrs[i][1] = name][2]
    ELSE default

\* element.findall(tag): the positions of the direct children with that tag,
\* in document order
FindAll(element, tag) ==
    LET hits == {i \in DOMAIN element.kids : element.kids[i].tag = tag}
        nth(k) == CHOOSE i \in hits : Cardinality({j \in hits : j < i}) = k - 1
    IN [k \in 1..Cardinality(hits) |-> nth(k)]

\* element.find(tag): the position of the first direct child with that tag,
\* 0 for None
Find(element, tag) ==
    LET hits == FindAll(element, tag)
    IN IF hits = <<>> THEN 0 ELSE hits[1]

\* s.startswith(prefix)
StartsWith(s, prefix) ==
    Len(s) >= Len(prefix) /\ SubSeq(s, 1, Len(prefix)) = prefix

\* s.upper()
UpperStr(s) == [i \in DOMAIN s |-> Upper(s[i])]

\* 'HEAD'
T_HEAD == <<"H", "E", "A", "D">>

\* 'P'
T_P == <<"P">>

\* 'AUTH'
T_AUTH == <<"A", "U", "T", "H">>

\* 'SOURCE'
T_SOURCE == <<"S", "O", "U", "R", "C", "E">>

\* 'EDNOTE'
T_EDNOTE == <<"E", "D", "N", "O", "T", "E">>

\* 'HED'
T_HED == <<"H", "E", "D">>

\* 'PSPACE'
T_PSPACE == <<"P", "S", "P", "A", "C", "E">>

\* 'CITA'
T_CITA == <<"C", "I", "T", "A">>

\* 'E'
T_E == <<"E">>

\* 'I'
T_I == <<"I">>

\* 'SU'
T_SU == <<"S", "U">>

\* 'SB'
T_SB == <<"S", "B">>

\* 'DIV'
T_DIV == <<"D", "I", "V">>

\* 'TITLE'
TY_TITLE == <<"T", "I", "T", "L", "E">>

\* 'CHAPTER'
TY_CHAPTER == <<"C", "H", "A", "P", "T", "E", "R">>

\* 'SUBCHAP'
TY_SUBCHAP == <<"S", "U", "B", "C", "H", "A", "P">>

\* 'PART'
TY_PART == <<"P", "A", "R", "T">>

\* 'SUBPART'
TY_SUBPART == <<"S", "U", "B", "P", "A", "R", "T">>

\* 'SECTION'
TY_SECTION == <<"S", "E", "C", "T", "I", "O", "N">>

\* the section sign, one character
SectionSign == "§"

----------------------------------------------------------------------------
(* ECFRToMarkdownConverter: text *)

\* [.,:;!?]
Punctuation == {".", ",", ":", ";", "!", "?"}

\* \s+
PatSpaces == RPlus(RS)

\* \s+([.,:;!?])
PatSpaceBeforePunct == RSeq(<<RPlus(RS), RGrp(1, RSet(Punctuation))>>)

\* ([.!?])\s*([A-Z])
PatSentenceEnd ==
    RSeq(<<RGrp(1, RSet({".", "!", "?"})), RStar(RS), RGrp(2, RSet(Uppers))>>)

\* ECFRToMarkdownConverter.clean_text
ecfr_clean_text(txt) ==
    IF txt = <<>> THEN <<>>
    ELSE LET t1 == ReSub(PatSpaces, <<" ">>, Strip(txt), NoFlags)
             t2 == ReSub(PatSpaceBeforePunct, <<"\\1">>, t1, NoFlags)
         IN ReSub(PatSentenceEnd, <<"\\1", " ", "\\2">>, t2, NoFlags)

\* the marker an inline child is wrapped in, <<>> for none
InlineMarker(child) ==
    LET emphasis_type == Get(child, "T", <<"0", "3">>)
    IN CASE child.tag = T_E ->
                IF emphasis_type \in {<<"0", "3">>, <<"0", "4">>} THEN <<"*">>
                ELSE IF emphasis_type \in {<<"0", "1">>, <<"0", "2">>} THEN <<"*", "*">>
                ELSE <<>>
         [] child.tag = T_I -> <<"*">>
         [] child.tag = T_SU -> <<"^">>
         [] child.tag = T_SB -> <<"_">>
         [] OTHER -> <<>>

RECURSIVE extract_text_content(_)
extract_text_content(element) ==
    LET piece(i) ==
            LET child == element.kids[i]
            IN InlineMarker(child) \o extract_text_content(child) \o InlineMarker(child)
               \o child.tail
    IN ecfr_clean_text(element.text
                       \o Join(<<>>, [i \in DOMAIN element.kids |-> piece(i)]))

----------------------------------------------------------------------------
(* ECFRToMarkdownConverter: headings *)

\* self.heading_levels
heading_levels ==
    << <<TY_TITLE, 1>>, <<TY_CHAPTER, 2>>, <<TY_SUBCHAP, 3>>, <<TY_PART, 4>>,
       <<TY_SUBPART, 5>>, <<TY_SECTION, 6>> >>

\* get_heading_level with 0 for a type the table does not hold
get_heading_level_Zero(div_type) ==
    IF \E i \in DOMAIN heading_levels : heading_levels[i][1] = div_type
    THEN heading_levels[CHOOSE i \in DOMAIN heading_levels :
                            heading_levels[i][1] = div_type][2]
    ELSE 0

\* self.heading_levels.get(div_type, 6)
get_heading_level(div_type) ==
    IF \E i \in DOMAIN heading_levels : heading_levels[i][1] = div_type
    THEN heading_levels[CHOOSE i \in DOMAIN heading_levels :
                            heading_levels[i][1] = div_type][2]
    ELSE 6

\* s.replace(c, '')
Without(s, c) == SelectSeq(s, LAMBDA x : x # c)

\* s.isdigit(): at least one character, and digits only
IsDigit(s) == s # <<>> /\ \A i \in DOMAIN s : s[i] \in Digits

\* format_section_number returning its argument as it is
format_section_number_Unsigned(section_num) == section_num

format_section_number(section_num) ==
    IF StartsWith(section_num, <<SectionSign>>) THEN section_num
    ELSE IF IsDigit(Without(Without(section_num, "."), "-"))
    THEN <<SectionSign, " ">> \o section_num
    ELSE section_num

\* self.current_context after __init__
NoContext ==
    [title |-> <<>>, chapter |-> <<>>, part |-> <<>>, subpart |-> <<>>,
     section |-> <<>>]

\* UpdateContext with SUBCHAP written to the chapter entry
UpdateContext_Subchap(ctx, div_type, heading_text) ==
    CASE div_type = TY_TITLE   -> [ctx EXCEPT !.title = heading_text]
      [] div_type = TY_CHAPTER -> [ctx EXCEPT !.chapter = heading_text]
      [] div_type = TY_SUBCHAP -> [ctx EXCEPT !.chapter = heading_text]
      [] div_type = TY_PART    -> [ctx EXCEPT !.part = heading_text]
      [] div_type = TY_SUBPART -> [ctx EXCEPT !.subpart = heading_text]
      [] div_type = TY_SECTION -> [ctx EXCEPT !.section = heading_text]
      [] OTHER -> ctx

\* "Update context based on division type"
UpdateContext(ctx, div_type, heading_text) ==
    CASE div_type = TY_TITLE   -> [ctx EXCEPT !.title = heading_text]
      [] div_type = TY_CHAPTER -> [ctx EXCEPT !.chapter = heading_text]
      [] div_type = TY_PART    -> [ctx EXCEPT !.part = heading_text]
      [] div_type = TY_SUBPART -> [ctx EXCEPT !.subpart = heading_text]
      [] div_type = TY_SECTION -> [ctx EXCEPT !.section = heading_text]
      [] OTHER -> ctx

\* the smaller of two numbers
Min2(a, b) == IF a <= b THEN a ELSE b

\* the heading line of a division of type div_type whose HEAD reads
\* heading_text
HeadingLine(div_type, heading_text) ==
    LET heading_level == Min2(get_heading_level(div_type), 6)
        shown == IF div_type = TY_SECTION
                 THEN format_section_number(heading_text)
                 ELSE heading_text
    IN NL \o Repeat("#", heading_level) \o <<" ">> \o shown \o NL

----------------------------------------------------------------------------
(* ECFRToMarkdownConverter: blocks *)

process_paragraph(p_element) ==
    LET txt == extract_text_content(p_element)
    IN IF txt # <<>> THEN NL \o txt \o NL ELSE <<>>

\* the label line of an auxiliary block: the HED child in bold, if there is
\* one
LabelLine(element) ==
    IF Find(element, T_HED) # 0
    THEN <<NL \o <<"*", "*">> \o extract_text_content(element.kids[Find(element, T_HED)])
              \o <<"*", "*">>>>
    ELSE <<>>

process_authority(auth_element) ==
    Join(NL, LabelLine(auth_element)
             \o (IF Find(auth_element, T_PSPACE) # 0
                 THEN <<extract_text_content(
                            auth_element.kids[Find(auth_element, T_PSPACE)]) \o NL>>
                 ELSE <<>>))

process_source(source_element) ==
    Join(NL, LabelLine(source_element)
             \o (IF Find(source_element, T_PSPACE) # 0
                 THEN <<extract_text_content(
                            source_element.kids[Find(source_element, T_PSPACE)]) \o NL>>
                 ELSE <<>>))

process_editorial_note(ednote_element) ==
    LET bodies == SelectSeq(ednote_element.kids,
                            LAMBDA c : c.tag = T_PSPACE \/ c.tag = T_P)
        parts == LabelLine(ednote_element)
                 \o [i \in DOMAIN bodies |-> extract_text_content(bodies[i])]
    IN Join(NL, IF parts # <<>> THEN Append(parts, <<>>) ELSE parts)

----------------------------------------------------------------------------
(* ECFRToMarkdownConverter.process_division *)

\* An item of the list content.  kind and at are bookkeeping of the model:
\* what the item renders and the position, among the children of the
\* division, of the child it renders.
Piece(kind, at, txt) == [kind |-> kind, at |-> at, text |-> txt]

\* the heading item, if the division has a HEAD child
HeadingPieces(div_element) ==
    LET at == Find(div_element, T_HEAD)
        div_type == UpperStr(Get(div_element, "TYPE", <<>>))
    IN IF at # 0
       THEN <<Piece("heading", at,
                    HeadingLine(div_type, extract_text_content(div_element.kids[at])))>>
       ELSE <<>>

\* the authority, source and editorial note items, each if the child is there
AuxiliaryPieces(div_element) ==
    LET auth == Find(div_element, T_AUTH)
        source == Find(div_element, T_SOURCE)
        ednote == Find(div_element, T_EDNOTE)
    IN (IF auth # 0
        THEN <<Piece("authority", auth, process_authority(div_element.kids[auth]))>>
        ELSE <<>>)
       \o (IF source # 0
           THEN <<Piece("source", source, process_source(div_element.kids[source]))>>
           ELSE <<>>)
       \o (IF ednote # 0
           THEN <<Piece("ednote", ednote,
                        process_editorial_note(div_element.kids[ednote]))>>
           ELSE <<>>)

\* ParagraphPieces taking the paragraphs last to first
ParagraphPieces_Reversed(div_element) ==
    LET ps == FindAll(div_element, T_P)
    IN [k \in DOMAIN ps |->
           Piece("paragraph", ps[Len(ps) + 1 - k],
                 process_paragraph(div_element.kids[ps[Len(ps) + 1 - k]]))]

\* one item for each direct P child
ParagraphPieces(div_element) ==
    LET ps == FindAll(div_element, T_P)
    IN [k \in DOMAIN ps |->
           Piece("paragraph", ps[k], process_paragraph(div_element.kids[ps[k]]))]

\* BodyPieces with the paragraphs put before the auxiliary blocks
BodyPieces_ParagraphsFirst(div_element) ==
    HeadingPieces(div_element) \o ParagraphPieces(div_element)
    \o AuxiliaryPieces(div_element)

\* content when the loop over the child divisions starts
BodyPieces(div_element) ==
    HeadingPieces(div_element) \o AuxiliaryPieces(div_element)
    \o ParagraphPieces(div_element)

\* self.current_context after the heading of div_element has been handled
ContextAfter(ctx, div_element) ==
    LET at == Find(div_element, T_HEAD)
    IN IF at # 0
       THEN UpdateContext(ctx, UpperStr(Get(div_element, "TYPE", <<>>)),
                          extract_text_content(div_element.kids[at]))
       ELSE ctx

\* "if child_div.tag.startswith('DIV') and child_div.tag != div_element.tag"
Recursed(div_element, child_div) ==
    StartsWith(child_div.tag, T_DIV) /\ child_div.tag # div_element.tag

\* '\n'.join(content)
JoinPieces(pieces) == Join(NL, [i \in DOMAIN pieces |-> pieces[i].text])

\* the call process_division(div_element, level) as it starts
Frame(div_element, level) ==
    [elem |-> div_element, level |-> level, step |-> "enter", content |-> <<>>,
     kid |-> 0]

----------------------------------------------------------------------------
(* ABSPart7Parser.parse_full_document *)

\* A page of the PDF: ok is whether page.get_text("text") returns, text what
\* it returns.
Page(ok, txt) == [ok |-> ok, text |-> txt]

\* '[missing page]'
PLACEHOLDER == <<"[", "m", "i", "s", "s", "i", "n", "g", " ", "p", "a", "g",
                 "e", "]">>

\* extract_text_from_page returning a text in place of a page it cannot read
extract_text_from_page_Placeholder(pages, page_num) ==
    IF page_num + 1 \in DOMAIN pages /\ pages[page_num + 1].ok
    THEN pages[page_num + 1].text
    ELSE PLACEHOLDER

\* pages is self.doc, page_num counts from 0; an exception is logged and ''
\* returned
extract_text_from_page(pages, page_num) ==
    IF page_num + 1 \in DOMAIN pages /\ pages[page_num + 1].ok
    THEN pages[page_num + 1].text
    ELSE <<>>

\* one iteration of "for page_num in range(len(self.doc))": all_text after it
ExtractPage(pages, page_num, all_text) ==
    LET page_text == extract_text_from_page(pages, page_num)
    IN IF page_text # <<>> /\ clean_text(page_text) # <<>>
       THEN Append(all_text, clean_text(page_text))
       ELSE all_text

RECURSIVE ExtractFrom(_, _, _)
ExtractFrom(pages, page_num, all_text) ==
    IF page_num >= Len(pages) THEN all_text
    ELSE ExtractFrom(pages, page_num + 1, ExtractPage(pages, page_num, all_text))

\* '\n\n'.join(all_text)
CombineText(all_text) == Join(<<"\n", "\n">>, all_text)

\* the digits, by value
DigitSeq == <<"0", "1", "2", "3", "4", "5", "6", "7", "8", "9">>

\* str(n) of a natural number
RECURSIVE IntToStr(_)
IntToStr(n) ==
    IF n < 10 THEN <<DigitSeq[n + 1]>>
    ELSE IntToStr(n \div 10) \o <<DigitSeq[(n % 10) + 1]>>

\* '## Table of Contents\n'
TOC_HEADER == <<"#", "#", " ", "T", "a", "b", "l", "e", " ", "o", "f", " ",
                "C", "o", "n", "t", "e", "n", "t", "s", "\n">>

\* ' (Page '
W_PageOpen == <<" ", "(", "P", "a", "g", "e", " ">>

\* What self.doc.get_toc() does: ok is whether it returns, entries the
\* [level, title, page] triples it returns.
Bookmarks(ok, entries) == [ok |-> ok, entries |-> entries]

\* f"{indent}- {title} (Page {page})" with indent = "  " * (level - 1)
TocLine(entry) ==
    Repeat(" ", 2 * (entry.level - 1)) \o <<"-", " ">> \o entry.title
    \o W_PageOpen \o IntToStr(entry.page) \o <<")">>

extract_table_of_contents(bookmarks) ==
    IF bookmarks.ok /\ bookmarks.entries # <<>>
    THEN Join(NL, <<TOC_HEADER>>
                  \o [i \in DOMAIN bookmarks.entries |-> TocLine(bookmarks.entries[i])]
                  \o <<NL>>)
    ELSE <<>>

\* what parse_full_document returns for a file that opens with the given
\* pages and bookmarks
parse_full_document(pages, bookmarks) ==
    LET full_text == CombineText(ExtractFrom(pages, 0, <<>>))
        sections == identify_sections(full_text)
    IN extract_table_of_contents(bookmarks) \o format_for_vector_storage(sections)

----------------------------------------------------------------------------
(* ECFRToMarkdownConverter.process_division as a function, and convert_file *)

\* process_division(div_element) on a converter whose current_context is
\* ctx: the text returned and current_context after the call
RECURSIVE process_division(_, _), RecurseFrom(_, _, _, _)
RecurseFrom(div_element, k, pieces, ctx) ==
    IF k > Len(div_element.kids) THEN [text |-> JoinPieces(pieces), ctx |-> ctx]
    ELSE IF Recursed(div_element, div_element.kids[k])
         THEN LET r == process_division(div_element.kids[k], ctx)
              IN RecurseFrom(div_element, k + 1,
                             Append(pieces, Piece("division", k, r.text)), r.ctx)
         ELSE RecurseFrom(div_element, k + 1, pieces, ctx)
process_division(div_element, ctx) ==
    RecurseFrom(div_element, 1, BodyPieces(div_element),
                ContextAfter(ctx, div_element))

process_citation(cita_element) ==
    LET txt == extract_text_content(cita_element)
    IN IF txt # <<>> THEN NL \o <<"*">> \o txt \o <<"*">> \o NL ELSE <<>>

\* '###### '
H_Level6 == <<"#", "#", "#", "#", "#", "#", " ">>

process_section(section_element) ==
    LET head == Find(section_element, T_HEAD)
        ps == FindAll(section_element, T_P)
        citas == FindAll(section_element, T_CITA)
    IN Join(NL,
            (IF head # 0
             THEN <<NL \o H_Level6
                    \o format_section_number(
                           extract_text_content(section_element.kids[head]))
                    \o NL>>
             ELSE <<>>)
            \o [i \in DOMAIN ps |-> process_paragraph(section_element.kids[ps[i]])]
            \o [i \in DOMAIN citas |-> process_citation(section_element.kids[citas[i]])])

\* The elements below root are named by their paths: the positions to take,
\* child by child, from root.  The paths of all descendants of element, in
\* document order.
RECURSIVE DescPaths(_)
DescPaths(element) ==
    Join(<<>>, [k \in DOMAIN element.kids |->
                   CHOOSE paths \in {<<<<k>>>> \o [j \in DOMAIN below |-> <<k>> \o below[j]] :
                                        below \in {DescPaths(element.kids[k])}} : TRUE])

\* the element at a path
RECURSIVE ElemAt(_, _)
ElemAt(element, path) ==
    IF path = <<>> THEN element ELSE ElemAt(element.kids[path[1]], Tail(path))

\* 'DIV1'
T_DIV1 == <<"D", "I", "V", "1">>

\* 'IDNO'
T_IDNO == <<"I", "D", "N", "O">>

\* 'AMDDATE'
T_AMDDATE == <<"A", "M", "D", "D", "A", "T", "E">>

\* 'title'
A_title == <<"t", "i", "t", "l", "e">>

\* root.findall('.//DIV1')
Div1Paths(root) ==
    SelectSeq(DescPaths(root), LAMBDA path : ElemAt(root, path).tag = T_DIV1)

\* root.findall('.//DIV8[@TYPE="SECTION"]')
SectionPaths(root) ==
    SelectSeq(DescPaths(root),
              LAMBDA path : /\ ElemAt(root, path).tag = <<"D", "I", "V", "8">>
                            /\ Get(ElemAt(root, path), "TYPE", <<>>) = TY_SECTION)

\* "section in div1.iter()": the section is the element at div1 or below it
InIter(section, div1) ==
    Len(div1) <= Len(section) /\ SubSeq(section, 1, Len(div1)) = div1

\* the sections the pass over "remaining top-level sections" renders
RemainingSections(root) ==
    SelectSeq(SectionPaths(root),
              LAMBDA section :
                  ~\E i \in DOMAIN Div1Paths(root) : InIter(section, Div1Paths(root)[i]))

\* root.find(...) of extract_metadata, hits being the paths that match:
\* <<>> when nothing is found, else <<the text of the first element found>>
FirstText(root, hits) ==
    IF hits = <<>> THEN <<>> ELSE <<extract_text_content(ElemAt(root, hits[1]))>>

extract_metadata(root) ==
    [title |->
         FirstText(root, SelectSeq(DescPaths(root),
                                   LAMBDA path : ElemAt(root, path).tag = TY_TITLE)),
     title_number |->
         FirstText(root, SelectSeq(DescPaths(root),
                                   LAMBDA path :
                                       /\ ElemAt(root, path).tag = T_IDNO
                                       /\ Get(ElemAt(root, path), "TYPE", <<>>) = A_title)),
     amendment_date |->
         FirstText(root, SelectSeq(DescPaths(root),
                                   LAMBDA path : ElemAt(root, path).tag = T_AMDDATE))]

\* '**Title:** '
MD_TitleLabel == <<"*", "*", "T", "i", "t", "l", "e", ":", "*", "*", " ">>

\* '**Last Updated:** '
MD_UpdatedLabel == <<"*", "*", "L", "a", "s", "t", " ", "U", "p", "d", "a",
                     "t", "e", "d", ":", "*", "*", " ">>

\* '---'
MD_Rule == <<"-", "-", "-">>

\* content of convert_file when the loop over the DIV1 elements starts
FileHeader(root) ==
    LET metadata == extract_metadata(root)
    IN (IF metadata.title # <<>>
        THEN <<<<"#", " ">> \o metadata.title[1], <<>>>> ELSE <<>>)
       \o (IF metadata.title_number # <<>>
           THEN <<MD_TitleLabel \o metadata.title_number[1]>> ELSE <<>>)
       \o (IF metadata.amendment_date # <<>>
           THEN <<MD_UpdatedLabel \o metadata.amendment_date[1]>> ELSE <<>>)
       \o <<<<>>, MD_Rule, <<>>>>

\* the loop over the DIV1 elements from the k-th on: content and
\* current_context after it
RECURSIVE DivisionsFrom(_, _, _, _)
DivisionsFrom(root, k, content, ctx) ==
    IF k > Len(Div1Paths(root)) THEN [content |-> content, ctx |-> ctx]
    ELSE LET r == process_division(ElemAt(root, Div1Paths(root)[k]), ctx)
         IN DivisionsFrom(root, k + 1, Append(content, r.text), r.ctx)

\* the loop over the remaining sections: what it appends to content
SectionTexts(root) ==
    [i \in DOMAIN RemainingSections(root) |->
        process_section(ElemAt(root, RemainingSections(root)[i]))]

\* A file: exists is os.path.exists, parses whether ET.parse returns, root
\* the element tree.getroot() gives.
File(exists, parses, root) == [exists |-> exists, parses |-> parses, root |-> root]

\* the "raise" of the handlers of convert_file: the error reaches the caller
ErrorRaised_Swallowed == FALSE

ErrorRaised == TRUE

\* convert_file(file) on a converter whose current_context is ctx: whether
\* it raises, what it writes (<<>> for no file written, else <<the text>>),
\* how many calls of process_division it makes, and current_context after it
convert_file(file, ctx) ==
    IF ~file.parses
    THEN [raised |-> ErrorRaised, written |-> <<>>, rendered |-> 0, ctx |-> ctx]
    ELSE LET done == DivisionsFrom(file.root, 1, FileHeader(file.root), ctx)
         IN [raised |-> FALSE,
             written |-> <<Join(NL, done.content \o SectionTexts(file.root))>>,
             rendered |-> Len(Div1Paths(file.root)),
             ctx |-> done.ctx]

----------------------------------------------------------------------------
(* The text pipeline, step by step: identify_sections(text) followed by     *)
(* format_for_vector_storage(sections).                                    *)

VARIABLES
    pc,                \* where the run stands
    \* identify_sections and format_for_vector_storage
    text,              \* the argument of identify_sections
    lines,             \* text.split('\n')
    line_idx,          \* the position of "for line in lines"
    current_section,   \* <<>> for None, else <<the open unit>>
    content_buffer,    \* the lines gathered for the open unit
    buffer_at,         \* the indices in lines of the lines in content_buffer
    sections,          \* the units appended so far
    markdown_content,  \* the entries appended by format_for_vector_storage
    sec_idx,           \* the position of "for section in sections"
    output,            \* what format_for_vector_storage returns
    \* format_content
    content,           \* the argument of format_content
    formatted,         \* format_content(content)
    reformatted,       \* format_content(formatted)
    \* process_division
    tree,              \* the element process_division is first called with
    stack,             \* the calls of process_division under way, outermost first
    current_context,   \* self.current_context
    result,            \* what the outermost call returns
    \* parse_full_document
    pdf,               \* the pages of the file at self.pdf_path
    bookmarks,         \* what self.doc.get_toc() did when it was called
    doc,               \* self.doc: <<>> for None, else <<the pages>>
    self_sections,     \* self.sections
    page_num,          \* the position of "for page_num in range(len(self.doc))"
    all_text,          \* the cleaned page texts appended so far
    page_of,           \* the page_num each entry of all_text was made at
    full_text,         \* '\n\n'.join(all_text)
    doc_sections,      \* the local variable sections of parse_full_document
    toc,               \* the local variable toc
    final_content,     \* what parse_full_document returns
    \* main and convert_file of ecfr_xml_to_markdown.py
    files,             \* the input files of files_to_convert, as they are on disk
    file_idx,          \* the position of "for input_file, output_file in ..."
    file_content,      \* the local variable content of convert_file
    div_idx,           \* the position of "for div1 in root.findall('.//DIV1')"
    rendered,          \* per file, the calls of process_division made for it
    raised,            \* per file, whether convert_file raised
    written,           \* per file, <<>> or <<the text written to the output file>>
    success_count,     \* the local variable success_count of main
    exit_code,         \* <<>> or <<what main returns>>
    \* one pass of the loop over the lines of identify_sections
    raw_line,          \* the line as "for line in lines" yields it
    verdict            \* <<>> or <<what the loop over patterns found>>

segVars == <<text, lines, line_idx, current_section, content_buffer, buffer_at,
             sections, markdown_content, sec_idx, output>>

fmtVars == <<content, formatted, reformatted>>

treeVars == <<tree, stack, current_context, result>>

docVars == <<pdf, bookmarks, doc, self_sections, page_num, all_text, page_of,
             full_text, doc_sections, toc, final_content>>

mainVars == <<files, file_idx, file_content, div_idx, rendered, raised, written,
              success_count, exit_code>>

classVars == <<raw_line, verdict>>

vars == <<pc, segVars, fmtVars, treeVars, docVars, mainVars, classVars>>

\* the variables of the other runs, which a step of the text pipeline leaves
\* alone
notSeg == <<fmtVars, treeVars, docVars, mainVars, classVars>>

\* the variables a call of format_content leaves alone
notFmt == <<segVars, treeVars, docVars, mainVars, classVars>>

\* the variables a step of process_division leaves alone
notTree == <<segVars, fmtVars, docVars, mainVars, classVars>>

\* the variables a step of parse_full_document leaves alone
notDoc == <<segVars, fmtVars, treeVars, mainVars, classVars>>

\* the variables a pass of the loop over the lines leaves alone
notClass == <<segVars, fmtVars, treeVars, docVars, mainVars>>

\* the variables of the other runs, which a step of main leaves alone
notMain == <<segVars, fmtVars, docVars, classVars>>

\* the longest text of the enumerated inputs, in lines
MaxLines == 4

\* '1 Scope'
L_Scope == <<"1", " ", "S", "c", "o", "p", "e">>

\* 'This part applies to all vessels.'
L_Applies == <<"T", "h", "i", "s", " ", "p", "a", "r", "t", " ", "a", "p",
               "p", "l", "i", "e", "s", " ", "t", "o", " ", "a", "l", "l",
               " ", "v", "e", "s", "s", "e", "l", "s", ".">>

\* '1.1 General'
L_General == <<"1", ".", "1", " ", "G", "e", "n", "e", "r", "a", "l">>

\* 'See 2.3.4 for details.'
L_See == <<"S", "e", "e", " ", "2", ".", "3", ".", "4", " ", "f", "o", "r",
           " ", "d", "e", "t", "a", "i", "l", "s", ".">>

\* 'TABLE 2 - Loads'
L_Table == <<"T", "A", "B", "L", "E", " ", "2", " ", "-", " ", "L", "o", "a",
             "d", "s">>

\* '  it shall apply '
L_Shall == <<" ", " ", "i", "t", " ", "s", "h", "a", "l", "l", " ", "a", "p",
             "p", "l", "y", " ">>

\* the lines the enumerated inputs are made of: two headings (one of them a
\* caption), two content lines, one with blanks around it, and a blank line
LineSet == {L_Scope, L_Table, L_See, L_Shall, <<>>}

\* the four input lines of the worked example
ExampleLines == <<L_Scope, L_Applies, L_General, L_See>>

\* 'CHAPTER 1 Hull'
L_Chapter == <<"C", "H", "A", "P", "T", "E", "R", " ", "1", " ", "H", "u",
               "l", "l">>

\* 'SECTION 2 Plans'
L_Section == <<"S", "E", "C", "T", "I", "O", "N", " ", "2", " ", "P", "l",
               "a", "n", "s">>

\* '1.1.1 Scope'
L_SubSub == <<"1", ".", "1", ".", "1", " ", "S", "c", "o", "p", "e">>

\* 'A. Item'
L_Item == <<"A", ".", " ", "I", "t", "e", "m">>

\* 'FIGURE 3 - Hull'
L_Figure == <<"F", "I", "G", "U", "R", "E", " ", "3", " ", "-", " ", "H",
              "u", "l", "l">>

\* 'x'
L_Text == <<"x">>

\* a text with a unit of every type, each followed by one content line
DepthLines ==
    <<L_Chapter, L_Text, L_Section, L_Text, L_Scope, L_Text, L_General, L_Text,
      L_SubSub, L_Text, L_Item, L_Text, L_Table, L_Text, L_Figure, L_Text>>

\* the same units with the table and the figure first
TableFirstLines ==
    <<L_Table, L_Text, L_Figure, L_Text, L_Chapter, L_Text, L_Item, L_Text,
      L_SubSub, L_Text>>

Texts ==
    {Join(NL, ls) : ls \in UNION {[1..n -> LineSet] : n \in 0..MaxLines}}
    \cup {Join(NL, ExampleLines), Join(NL, DepthLines), Join(NL, TableFirstLines)}

\* no call of process_division is modelled
TreeIdle ==
    /\ tree = <<>>
    /\ stack = <<>>
    /\ current_context = NoContext
    /\ result = <<>>

\* no single pass of the loop over the lines is modelled
ClassIdle == raw_line = <<>> /\ verdict = <<>>

\* no run of main is modelled
MainIdle ==
    /\ files = <<>>
    /\ file_idx = 0
    /\ file_content = <<>>
    /\ div_idx = 0
    /\ rendered = <<>>
    /\ raised = <<>>
    /\ written = <<>>
    /\ success_count = 0
    /\ exit_code = <<>>

\* no call of parse_full_document is modelled
DocIdle ==
    /\ pdf = <<>>
    /\ bookmarks = Bookmarks(TRUE, <<>>)
    /\ doc = <<>>
    /\ self_sections = <<>>
    /\ page_num = 0
    /\ all_text = <<>>
    /\ page_of = <<>>
    /\ full_text = <<>>
    /\ doc_sections = <<>>
    /\ toc = <<>>
    /\ final_content = <<>>

\* no call of format_content is modelled
FmtIdle == content = <<>> /\ formatted = <<>> /\ reformatted = <<>>

SegStart ==
    /\ text \in Texts
    /\ lines = <<>>
    /\ line_idx = 0
    /\ current_section = <<>>
    /\ content_buffer = <<>>
    /\ buffer_at = <<>>
    /\ sections = <<>>
    /\ markdown_content = <<>>
    /\ sec_idx = 0
    /\ output = <<>>

Init ==
    pc = "split" /\ SegStart /\ FmtIdle /\ TreeIdle /\ DocIdle /\ MainIdle /\ ClassIdle

\* identify_sections, up to the loop
Split ==
    /\ pc = "split"
    /\ lines' = SplitLines(text)
    /\ line_idx' = 1
    /\ current_section' = SegInit.current_section
    /\ content_buffer' = SegInit.content_buffer
    /\ buffer_at' = SegInit.buffer_at
    /\ sections' = SegInit.sections
    /\ pc' = "scan"
    /\ UNCHANGED <<text, markdown_content, sec_idx, output>>
    /\ UNCHANGED notSeg

\* identify_sections, one line
Scan ==
    /\ pc = "scan"
    /\ line_idx <= Len(lines)
    /\ LET st == ScanLine([current_section |-> current_section,
                           content_buffer |-> content_buffer,
                           buffer_at |-> buffer_at,
                           sections |-> sections],
                          lines[line_idx], line_idx)
       IN /\ current_section' = st.current_section
          /\ content_buffer' = st.content_buffer
          /\ buffer_at' = st.buffer_at
          /\ sections' = st.sections
    /\ line_idx' = line_idx + 1
    /\ UNCHANGED <<pc, text, lines, markdown_content, sec_idx, output>>
    /\ UNCHANGED notSeg

\* identify_sections, after the loop, and the header of
\* format_for_vector_storage
Flush ==
    /\ pc = "scan"
    /\ line_idx > Len(lines)
    /\ sections' = FlushLast([current_section |-> current_section,
                              content_buffer |-> content_buffer,
                              buffer_at |-> buffer_at,
                              sections |-> sections])
    /\ markdown_content' = RenderHeader
    /\ sec_idx' = 1
    /\ pc' = "render"
    /\ UNCHANGED <<text, lines, line_idx, current_section, content_buffer, buffer_at,
                   output>>
    /\ UNCHANGED notSeg

\* format_for_vector_storage, one unit
Render ==
    /\ pc = "render"
    /\ sec_idx <= Len(sections)
    /\ markdown_content' = RenderSection(markdown_content, sections[sec_idx], sec_idx)
    /\ sec_idx' = sec_idx + 1
    /\ UNCHANGED <<pc, text, lines, line_idx, current_section, content_buffer,
                   buffer_at, sections, output>>
    /\ UNCHANGED notSeg

\* format_for_vector_storage, the join
Finish ==
    /\ pc = "render"
    /\ sec_idx > Len(sections)
    /\ output' = RenderJoin(markdown_content)
    /\ pc' = "done"
    /\ UNCHANGED <<text, lines, line_idx, current_section, content_buffer, buffer_at,
                   sections, markdown_content, sec_idx>>
    /\ UNCHANGED notSeg

Next == Split \/ Scan \/ Flush \/ Render \/ Finish

Spec == Init /\ [][Next]_vars

----------------------------------------------------------------------------
(* Claims about the text pipeline, checked under Spec *)

\* identify_sections has returned: sections is its result
Segmented == pc \in {"render", "done"}

\* the four keys the claims speak of
UnitView(u) ==
    [type |-> u.type, number |-> u.number, title |-> u.title, content |-> u.content]

UnitViews(us) == [i \in DOMAIN us |-> UnitView(us[i])]

\* 'See **2.3.4** for details.'
L_SeeBold == <<"S", "e", "e", " ", "*", "*", "2", ".", "3", ".", "4", "*",
               "*", " ", "f", "o", "r", " ", "d", "e", "t", "a", "i", "l",
               "s", ".">>

\* the two units of the worked example, the second with the given content
ExampleUnits(second_content) ==
    << [type |-> "main_section", number |-> <<"1">>,
        title |-> <<"S", "c", "o", "p", "e">>, content |-> L_Applies],
       [type |-> "subsection", number |-> <<"1", ".", "1">>,
        title |-> <<"G", "e", "n", "e", "r", "a", "l">>,
        content |-> second_content] >>

\* C1 as stated: for the example lines identify_sections returns the two
\* units, the second with its cross-reference already in bold.
C1_SegmenterBoldsReference ==
    (Segmented /\ lines = ExampleLines) =>
        UnitViews(sections) = ExampleUnits(L_SeeBold)

\* C1 amended: for the example lines identify_sections returns the two units
\* with the buffered lines as content, the cross-reference not yet marked;
\* format_for_vector_storage then emits the second unit's content with the
\* cross-reference in bold.
C1_ReferenceBoldedWhenRendered ==
    (Segmented /\ lines = ExampleLines) =>
        /\ UnitViews(sections) = ExampleUnits(L_See)
        /\ pc = "done" =>
              /\ Len(markdown_content) = 6
              /\ markdown_content[6] = Entry(L_SeeBold \o NL, 2)
              /\ SubSeq(output, Len(output) - Len(L_SeeBold), Len(output))
                     = L_SeeBold \o NL

C1_Witness == pc = "done" /\ lines = ExampleLines /\ Len(sections) = 2

\* whether the k-th line is a heading line: stripped, it matches a pattern
IsHeadingLine(k) == MatchLine(Strip(lines[k])).matched

\* C2 as stated: when the loop over the lines has ended, every heading line
\* that has a later heading line has been appended as a unit, whether or not
\* content lines followed it.
C2_HeadingWithoutContentAppended ==
    (pc = "scan" /\ line_idx > Len(lines)) =>
        Len(sections) =
            Cardinality({k \in DOMAIN lines :
                            IsHeadingLine(k) /\ \E j \in DOMAIN lines :
                                                    j > k /\ IsHeadingLine(j)})

\* C3: of two units in sections the earlier one's heading line comes first
\* in the input and none of its content lines comes after the later one's
\* heading line; the bookkeeping indices name the lines the unit was made
\* of; and the entries of markdown_content follow the order of sections,
\* the heading entry of each unit first.
C3_SourceOrderPreserved ==
    /\ \A i \in DOMAIN sections :
          LET u == sections[i]
          IN /\ u.head_at \in DOMAIN lines
             /\ u.full_header = Strip(lines[u.head_at])
             /\ \A k \in DOMAIN u.content_at :
                   /\ u.content_at[k] \in DOMAIN lines
                   /\ u.content_at[k] > u.head_at
                   /\ k > 1 => u.content_at[k - 1] < u.content_at[k]
             /\ u.content =
                    Strip(Join(NL, [k \in DOMAIN u.content_at |->
                                       Strip(lines[u.content_at[k]])]))
    /\ \A i, j \in DOMAIN sections :
          i < j =>
             /\ sections[i].head_at < sections[j].head_at
             /\ \A k \in DOMAIN sections[i].content_at :
                   sections[i].content_at[k] < sections[j].head_at
    /\ \A a, b \in DOMAIN markdown_content :
          a < b => markdown_content[a].unit <= markdown_content[b].unit
    /\ \A a \in DOMAIN markdown_content :
          LET e == markdown_content[a]
          IN e.unit > 0 =>
                /\ e.unit \in DOMAIN sections
                /\ \/ e.text = NL \o Heading(sections[e.unit]) \o NL
                   \/ /\ markdown_content[a - 1].unit = e.unit
                      /\ e.text = format_content(sections[e.unit].content) \o NL
    /\ pc = "done" =>
          \A i \in DOMAIN sections : \E a \in DOMAIN markdown_content :
              markdown_content[a].unit = i

C3_Witness ==
    /\ pc = "done"
    /\ Len(sections) >= 2
    /\ Len(sections[1].content_at) >= 1
    /\ lines # ExampleLines
    /\ Len(markdown_content) >= 6

\* identify_sections has returned: the loop over the lines and the flush of
\* the last unit are done, no unit has been rendered yet
JustReturned == pc = "render" /\ sec_idx = 1

\* whether the k-th line is a content line: not blank, and no heading line
IsContentLine(k) == Strip(lines[k]) # <<>> /\ ~IsHeadingLine(k)

\* the heading lines after the k-th line
LaterHeadings(k) == {j \in DOMAIN lines : j > k /\ IsHeadingLine(j)}

\* the content lines between the heading line h and the next heading line,
\* or the end of the input
LinesUnder(h) ==
    {k \in DOMAIN lines :
        /\ k > h
        /\ IsContentLine(k)
        /\ \A j \in LaterHeadings(h) : k < j}

\* C17: when identify_sections returns, the content of every unit is the
\* trimmed content lines between its heading line and the next heading line
\* (the end of the input for the last unit), in input order, joined by line
\* ends; every content line that follows a heading line is in the content
\* of exactly one unit, once.
C17_ContentBetweenHeadings ==
    JustReturned =>
        /\ \A i \in DOMAIN sections :
               LET u == sections[i]
               IN /\ IsHeadingLine(u.head_at)
                  /\ {u.content_at[k] : k \in DOMAIN u.content_at} = LinesUnder(u.head_at)
                  /\ \A a, b \in DOMAIN u.content_at :
                         a < b => u.content_at[a] < u.content_at[b]
                  /\ u.content =
                         Join(NL, [k \in DOMAIN u.content_at |->
                                      Strip(lines[u.content_at[k]])])
        /\ \A k \in DOMAIN lines :
               (IsContentLine(k) /\ \E h \in 1..(k - 1) : IsHeadingLine(h))
               => Cardinality({<<i, a>> \in (DOMAIN sections) \X (1..Len(lines)) :
                                  /\ a \in DOMAIN sections[i].content_at
                                  /\ sections[i].content_at[a] = k}) = 1

\* C17: '1 Scope', 'See 2.3.4 for details.', 'TABLE 2 - Loads' and
\* '  it shall apply ' give two units, the second flushed at the end of the
\* input with the trimmed last line as its content
C17_Witness ==
    /\ JustReturned
    /\ lines = <<L_Scope, L_See, L_Table, L_Shall>>
    /\ Len(sections) = 2
    /\ sections[1].content = L_See
    /\ sections[2].content_at = <<4>>
    /\ sections[2].content = Strip(L_Shall)

\* C18: a content line that stands before the first heading line is in the
\* content of no unit, and a text without a heading line gives no unit.
C18_LinesBeforeFirstHeadingDropped ==
    /\ \A i \in DOMAIN sections :
           LET u == sections[i]
           IN /\ \A k \in DOMAIN u.content_at :
                     \E h \in 1..(u.content_at[k] - 1) : IsHeadingLine(h)
              /\ Len(SplitLines(u.content)) = Len(u.content_at)
              /\ \A k \in DOMAIN u.content_at :
                     SplitLines(u.content)[k] = Strip(lines[u.content_at[k]])
    /\ (pc # "split" /\ \A k \in DOMAIN lines : ~IsHeadingLine(k)) => sections = <<>>

\* C18: 'See 2.3.4 for details.', '1 Scope' and '  it shall apply ' give
\* one unit whose content is the third line alone
C18_Witness ==
    /\ JustReturned
    /\ lines = <<L_See, L_Scope, L_Shall>>
    /\ Len(sections) = 1
    /\ sections[1].head_at = 2
    /\ sections[1].content_at = <<3>>
    /\ sections[1].content = Strip(L_Shall)

----------------------------------------------------------------------------
(* format_content as a function of its argument: the argument is drawn     *)
(* from the texts made of a few pieces, and the function is applied to it  *)
(* and to its own result.                                                  *)

\* the longest argument, in pieces
MaxPieces == 3

\* 'Must'
T_Must == <<"M", "u", "s", "t">>

\* 'May'
T_May == <<"M", "a", "y">>

\* '1.2.3'
T_Ref == <<"1", ".", "2", ".", "3">>

\* the pieces: three keywords (two of them capitalised), a blank, a letter
\* that makes a longer word of its neighbour, and a cross-reference
PieceSet == {W_shall, T_Must, T_May, W_optional, <<" ">>, <<"x">>, T_Ref}

Contents == {Join(<<>>, ps) : ps \in UNION {[1..n -> PieceSet] : n \in 0..MaxPieces}}

\* no run of the text pipeline is modelled
SegIdle ==
    /\ text = <<>>
    /\ lines = <<>>
    /\ line_idx = 0
    /\ current_section = <<>>
    /\ content_buffer = <<>>
    /\ buffer_at = <<>>
    /\ sections = <<>>
    /\ markdown_content = <<>>
    /\ sec_idx = 0
    /\ output = <<>>

InitFormat ==
    /\ pc = "content"
    /\ content \in Contents
    /\ formatted = <<>>
    /\ reformatted = <<>>
    /\ SegIdle
    /\ TreeIdle
    /\ DocIdle
    /\ MainIdle
    /\ ClassIdle

\* format_content(content)
Format ==
    /\ pc = "content"
    /\ formatted' = format_content(content)
    /\ pc' = "formatted"
    /\ UNCHANGED <<content, reformatted>>
    /\ UNCHANGED notFmt

\* format_content applied to its own result
FormatAgain ==
    /\ pc = "formatted"
    /\ reformatted' = format_content(formatted)
    /\ pc' = "reformatted"
    /\ UNCHANGED <<content, formatted>>
    /\ UNCHANGED notFmt

NextFormat == Format \/ FormatAgain

SpecFormat == InitFormat /\ [][NextFormat]_vars

----------------------------------------------------------------------------
(* Claims about format_content, checked under SpecFormat *)

\* whether the pattern matches somewhere in s
Found(re, s, fl) == \E p \in 1..(Len(s) + 1) : Run(<<re>>, s, p, NoGroups, fl).ok

\* s holds no list prefix and no cross-reference pattern
PlainBody(s) ==
    /\ ~Found(PatBullet, s, MultiLine)
    /\ ~Found(PatLetterItem, s, MultiLine)
    /\ ~Found(PatNumberItem, s, MultiLine)
    /\ ~Found(PatCrossRef, s, NoFlags)
    /\ ~Found(PatSectionRef, s, NoFlags)
    /\ ~Found(PatChapterRef, s, NoFlags)

MandatoryWords == {W_shall, W_must, W_required, W_mandatory}

PermissiveWords == {W_may, W_optional, W_recommended}

\* whether the word w, in any letter case, stands at i..j of s as a whole
\* word: no letter, digit or underscore right before it or right after it
WholeWordAt(s, i, j, w) ==
    /\ 1 <= i /\ j <= Len(s) /\ j - i + 1 = Len(w)
    /\ \A k \in 1..Len(w) : Lower(s[i + k - 1]) = w[k]
    /\ ~IsWordAt(s, i - 1)
    /\ ~IsWordAt(s, j + 1)

\* the marker of the keyword that stands at i..j of s, <<>> when none does
MarkerAt(s, i, j) ==
    IF \E w \in MandatoryWords : WholeWordAt(s, i, j, w) THEN <<"*", "*">>
    ELSE IF \E w \in PermissiveWords : WholeWordAt(s, i, j, w) THEN <<"*">>
    ELSE <<>>

\* the marker of the keyword that starts at i, <<>> when none does
OpensAt(s, i) ==
    IF \E j \in i..Len(s) : MarkerAt(s, i, j) # <<>>
    THEN MarkerAt(s, i, CHOOSE j \in i..Len(s) : MarkerAt(s, i, j) # <<>>)
    ELSE <<>>

\* the marker of the keyword that ends at j, <<>> when none does
ClosesAt(s, j) ==
    IF \E i \in 1..j : MarkerAt(s, i, j) # <<>>
    THEN MarkerAt(s, CHOOSE i \in 1..j : MarkerAt(s, i, j) # <<>>, j)
    ELSE <<>>

\* s with the marker put before the first and after the last character of
\* every whole-word keyword, and every character of s kept where it is
Emphasised(s) ==
    Join(<<>>, [i \in DOMAIN s |-> OpensAt(s, i) \o <<s[i]>> \o ClosesAt(s, i)])

\* C7: on a text with no list prefix and no cross-reference pattern,
\* format_content returns the text with every whole-word mandatory term in
\* "**" and every whole-word permissive term in "*", in any letter case,
\* the letters of the term and all other characters unchanged.
C7_KeywordsEmphasised ==
    (pc # "content" /\ PlainBody(content)) => formatted = Emphasised(content)

\* a text with a capitalised mandatory term and a lower-case permissive term,
\* both marked
C7_Witness ==
    /\ pc = "formatted"
    /\ PlainBody(content)
    /\ content = T_Must \o <<" ">> \o W_optional
    /\ formatted # content

\* C8 as stated: format_content applied to its own result returns that
\* result unchanged.
C8_FormatIdempotent == pc = "reformatted" => reformatted = formatted

----------------------------------------------------------------------------
(* The tree pipeline, step by step: one call process_division(tree) on a    *)
(* converter that has just been made, with the calls it makes on the child *)
(* divisions.                                                              *)

\* the most children the enumerated division has
MaxKids == 3

\* 'Part 1'
X_Part == <<"P", "a", "r", "t", " ", "1">>

\* 'Authority:'
X_Auth == <<"A", "u", "t", "h", "o", "r", "i", "t", "y", ":">>

\* '33 U.S.C. 1'
X_AuthBody == <<"3", "3", " ", "U", ".", "S", ".", "C", ".", " ", "1">>

\* 'Source:'
X_Source == <<"S", "o", "u", "r", "c", "e", ":">>

\* 'CGD 77'
X_SourceBody == <<"C", "G", "D", " ", "7", "7">>

\* 'Note:'
X_Note == <<"N", "o", "t", "e", ":">>

\* 'See 5.'
X_NoteBody == <<"S", "e", "e", " ", "5", ".">>

\* 'One.'
X_One == <<"O", "n", "e", ".">>

\* 'Two '
X_Two == <<"T", "w", "o", " ">>

\* 'it'
X_It == <<"i", "t">>

\* ' end.'
X_End == <<" ", "e", "n", "d", ".">>

\* '1.5'
X_SecNo == <<"1", ".", "5">>

\* 'Sec.'
X_Sec == <<"S", "e", "c", ".">>

\* 'DIV5'
T_DIV5 == <<"D", "I", "V", "5">>

\* 'DIV8'
T_DIV8 == <<"D", "I", "V", "8">>

Leaf(tag, txt) == Elem(tag, <<>>, txt, <<>>, <<>>)

K_HEAD == Leaf(T_HEAD, X_Part)

K_AUTH == Elem(T_AUTH, <<>>, <<>>, <<Leaf(T_HED, X_Auth), Leaf(T_PSPACE, X_AuthBody)>>, <<>>)

K_SOURCE ==
    Elem(T_SOURCE, <<>>, <<>>, <<Leaf(T_HED, X_Source), Leaf(T_PSPACE, X_SourceBody)>>, <<>>)

K_EDNOTE == Elem(T_EDNOTE, <<>>, <<>>, <<Leaf(T_HED, X_Note), Leaf(T_P, X_NoteBody)>>, <<>>)

K_P1 == Leaf(T_P, X_One)

\* <P>Two <E T="03">it</E> end.</P>
K_P2 == Elem(T_P, <<>>, X_Two, <<Elem(T_E, <<<<"T", <<"0", "3">>>>>>, X_It, <<>>, X_End)>>, <<>>)

\* <DIV8 TYPE="SECTION"><HEAD>1.5</HEAD><P>Sec.</P></DIV8>
K_DIV8 ==
    Elem(T_DIV8, <<<<"TYPE", TY_SECTION>>>>, <<>>, <<Leaf(T_HEAD, X_SecNo), Leaf(T_P, X_Sec)>>,
         <<>>)

\* the children the enumerated division is made of
KidSet == {K_HEAD, K_AUTH, K_SOURCE, K_EDNOTE, K_P1, K_P2, K_DIV8}

\* <DIV5 TYPE="PART"> with the given children
PartOf(kids) == Elem(T_DIV5, <<<<"TYPE", TY_PART>>>>, <<>>, kids, <<>>)

\* a division with a child of every kind, the source order being the reverse
\* of the order process_division takes them in
FullPart == PartOf(<<K_DIV8, K_P2, K_EDNOTE, K_SOURCE, K_AUTH, K_P1, K_HEAD>>)

\* 'Each vessel shall comply and may report.'
X_Shall == <<"E", "a", "c", "h", " ", "v", "e", "s", "s", "e", "l", " ", "s",
             "h", "a", "l", "l", " ", "c", "o", "m", "p", "l", "y", " ", "a",
             "n", "d", " ", "m", "a", "y", " ", "r", "e", "p", "o", "r", "t",
             ".">>

\* a paragraph with a mandatory and a permissive term
K_PShall == Leaf(T_P, X_Shall)

\* 'subchap'
TY_subchap == <<"s", "u", "b", "c", "h", "a", "p">>

\* 'APPENDIX'
TY_APPENDIX == <<"A", "P", "P", "E", "N", "D", "I", "X">>

\* 'Subpart A'
X_SubpartA == <<"S", "u", "b", "p", "a", "r", "t", " ", "A">>

\* 'Old part'
X_Old == <<"O", "l", "d", " ", "p", "a", "r", "t">>

\* <DIV5 TYPE=ty><HEAD>Part 1</HEAD><P>One.</P></DIV5>
DivOf(ty) == Elem(T_DIV5, <<<<"TYPE", ty>>>>, <<>>, <<K_HEAD, K_P1>>, <<>>)

\* <DIV5><HEAD>Part 1</HEAD><P>One.</P></DIV5>, without a TYPE attribute
K_Untyped == Elem(T_DIV5, <<>>, <<>>, <<K_HEAD, K_P1>>, <<>>)

\* the TYPE attributes of the divisions given one by one
DivTypes ==
    {TY_TITLE, TY_CHAPTER, TY_SUBCHAP, TY_PART, TY_SUBPART, TY_SECTION,
     TY_subchap, TY_APPENDIX, <<>>}

\* <DIV5 TYPE="SUBPART"><HEAD>Subpart A</HEAD><P>One.</P></DIV5>
K_Subpart ==
    Elem(T_DIV5, <<<<"TYPE", TY_SUBPART>>>>, <<>>, <<Leaf(T_HEAD, X_SubpartA), K_P1>>, <<>>)

\* <DIV8 TYPE="PART"><HEAD>Old part</HEAD></DIV8>
K_OldPart == Elem(T_DIV8, <<<<"TYPE", TY_PART>>>>, <<>>, <<Leaf(T_HEAD, X_Old)>>, <<>>)

\* 'B'
T_B == <<"B">>

\* <P>Two <B>it</B> end.</P>
K_PBold == Elem(T_P, <<>>, X_Two, <<Elem(T_B, <<>>, X_It, <<>>, X_End)>>, <<>>)

\* <P>Two <E T="05">it</E> end.</P>
K_PCode == Elem(T_P, <<>>, X_Two, <<Elem(T_E, <<<<"T", <<"0", "5">>>>>>, X_It, <<>>, X_End)>>, <<>>)

\* <P>Two <E T="01">it</E> end.</P>
K_PStrong ==
    Elem(T_P, <<>>, X_Two, <<Elem(T_E, <<<<"T", <<"0", "1">>>>>>, X_It, <<>>, X_End)>>, <<>>)

\* the divisions given one by one
MoreTrees ==
    {FullPart, PartOf(<<K_HEAD, K_PShall>>), K_Untyped,
     PartOf(<<K_HEAD, K_Subpart>>), PartOf(<<K_HEAD, K_OldPart, K_DIV8>>),
     PartOf(<<K_PBold>>), PartOf(<<K_PCode>>), PartOf(<<K_PStrong>>)}
    \cup {DivOf(ty) : ty \in DivTypes}

Trees ==
    {PartOf(kids) : kids \in UNION {[1..n -> KidSet] : n \in 0..MaxKids}}
    \cup MoreTrees

InitTree ==
    /\ pc = "walk"
    /\ tree \in Trees
    /\ stack = <<Frame(tree, 1)>>
    /\ current_context = NoContext
    /\ result = <<>>
    /\ SegIdle
    /\ FmtIdle
    /\ DocIdle
    /\ MainIdle
    /\ ClassIdle

\* the innermost call
Top == stack[Len(stack)]

\* the stack with its innermost call replaced
WithTop(frame) == [stack EXCEPT ![Len(stack)] = frame]

\* Enter with the title of current_context put in front of the paragraphs
Enter_TitleRead ==
    /\ pc = "walk"
    /\ stack # <<>>
    /\ Top.step = "enter"
    /\ stack' = WithTop([Top EXCEPT
                            !.content =
                                HeadingPieces(Top.elem)
                                \o AuxiliaryPieces(Top.elem)
                                \o [k \in DOMAIN ParagraphPieces(Top.elem) |->
                                       [ParagraphPieces(Top.elem)[k] EXCEPT
                                           !.text = current_context.title \o @]],
                            !.step = "kids",
                            !.kid = 1])
    /\ current_context' = ContextAfter(current_context, Top.elem)
    /\ UNCHANGED <<pc, tree, result>>
    /\ UNCHANGED notTree

\* process_division from its start to the loop over the children: the
\* heading, the context, the auxiliary blocks and the paragraphs
Enter ==
    /\ pc = "walk"
    /\ stack # <<>>
    /\ Top.step = "enter"
    /\ stack' = WithTop([Top EXCEPT !.content = BodyPieces(Top.elem),
                                    !.step = "kids",
                                    !.kid = 1])
    /\ current_context' = ContextAfter(current_context, Top.elem)
    /\ UNCHANGED <<pc, tree, result>>
    /\ UNCHANGED notTree

\* the loop over the children, a child that is not recursed into
Skip ==
    /\ pc = "walk"
    /\ stack # <<>>
    /\ Top.step = "kids"
    /\ Top.kid <= Len(Top.elem.kids)
    /\ ~Recursed(Top.elem, Top.elem.kids[Top.kid])
    /\ stack' = WithTop([Top EXCEPT !.kid = @ + 1])
    /\ UNCHANGED <<pc, tree, current_context, result>>
    /\ UNCHANGED notTree

\* the loop over the children, the call process_division(child_div, level + 1)
Descend ==
    /\ pc = "walk"
    /\ stack # <<>>
    /\ Top.step = "kids"
    /\ Top.kid <= Len(Top.elem.kids)
    /\ Recursed(Top.elem, Top.elem.kids[Top.kid])
    /\ stack' = Append(stack, Frame(Top.elem.kids[Top.kid], Top.level + 1))
    /\ UNCHANGED <<pc, tree, current_context, result>>
    /\ UNCHANGED notTree

\* return '\n'.join(content): the caller appends the text to its own content
\* and goes on with its next child
Return ==
    /\ pc = "walk"
    /\ stack # <<>>
    /\ Top.step = "kids"
    /\ Top.kid > Len(Top.elem.kids)
    /\ IF Len(stack) = 1
       THEN /\ result' = JoinPieces(Top.content)
            /\ stack' = <<>>
            /\ pc' = "done"
       ELSE LET caller == stack[Len(stack) - 1]
            IN /\ stack' = [SubSeq(stack, 1, Len(stack) - 1) EXCEPT
                               ![Len(stack) - 1] =
                                   [caller EXCEPT
                                       !.content =
                                           Append(@, Piece("division", caller.kid,
                                                           JoinPieces(Top.content))),
                                       !.kid = @ + 1]]
               /\ UNCHANGED <<pc, result>>
    /\ UNCHANGED <<tree, current_context>>
    /\ UNCHANGED notTree

NextTree == Enter \/ Skip \/ Descend \/ Return

SpecTree == InitTree /\ [][NextTree]_vars

----------------------------------------------------------------------------
(* Claims about process_division, checked under SpecTree.                  *)

\* the calls whose content has been started
Started == {f \in 1..Len(stack) : stack[f].step = "kids"}

\* the calls that have gone through all their children
Complete == {f \in Started : stack[f].kid > Len(stack[f].elem.kids)}

\* the place of a kind of item in the order of C4
Rank(kind) ==
    CASE kind = "heading" -> 1
      [] kind = "authority" -> 2
      [] kind = "source" -> 3
      [] kind = "ednote" -> 4
      [] kind = "paragraph" -> 5
      [] kind = "division" -> 6

\* the kinds of the items of content, in order
Kinds(items) == [i \in DOMAIN items |-> items[i].kind]

\* the positions of the children rendered by the items of the given kind
Ats(items, kind) == {items[i].at : i \in {j \in DOMAIN items : items[j].kind = kind}}

\* the positions of the children of e with the given tag
TagAts(e, tag) == {k \in DOMAIN e.kids : e.kids[k].tag = tag}

\* the positions of the children of e that are divisions of another tag
DivAts(e) ==
    {k \in DOMAIN e.kids :
        /\ Len(e.kids[k].tag) >= 3
        /\ SubSeq(e.kids[k].tag, 1, 3) = <<"D", "I", "V">>
        /\ e.kids[k].tag # e.tag}

\* C4: in every call of process_division the items of content stand in the
\* order heading, authority block, source block, editorial note, paragraphs,
\* recursed children: no item of a later kind stands before an item of an
\* earlier kind; from the start of the loop over the children on, content
\* holds one item for every direct P child and one for the first child of
\* each auxiliary tag; and when the loop is over, one item for every
\* recursed child.
C4_FixedOrder ==
    /\ \A f \in Started :
           LET items == stack[f].content
               e == stack[f].elem
           IN /\ \A i, j \in DOMAIN items :
                     i < j => Rank(items[i].kind) <= Rank(items[j].kind)
              /\ Ats(items, "paragraph") = TagAts(e, T_P)
              /\ Cardinality({i \in DOMAIN items : items[i].kind = "paragraph"})
                     = Cardinality(TagAts(e, T_P))
              /\ \A kt \in {<<"heading", T_HEAD>>, <<"authority", T_AUTH>>,
                             <<"source", T_SOURCE>>, <<"ednote", T_EDNOTE>>} :
                     /\ Cardinality({i \in DOMAIN items : items[i].kind = kt[1]})
                            = (IF TagAts(e, kt[2]) = {} THEN 0 ELSE 1)
                     /\ Ats(items, kt[1]) \subseteq TagAts(e, kt[2])
              /\ Ats(items, "division") \subseteq DivAts(e)
    /\ \A f \in Complete :
           /\ Ats(stack[f].content, "division") = DivAts(stack[f].elem)
           /\ Cardinality({i \in DOMAIN stack[f].content :
                               stack[f].content[i].kind = "division"})
                  = Cardinality(DivAts(stack[f].elem))

\* the division with a child of every kind, gone through: its items stand in
\* the order of C4 although the children stand in the reverse order
C4_Witness ==
    /\ pc = "walk"
    /\ tree = FullPart
    /\ Len(stack) = 1
    /\ 1 \in Complete
    /\ Kinds(stack[1].content)
           = <<"heading", "authority", "source", "ednote", "paragraph",
               "paragraph", "division">>
    /\ [i \in 1..7 |-> stack[1].content[i].at] = <<7, 5, 4, 3, 2, 6, 1>>

\* the kinds of item C5 speaks of
Bodies == {"authority", "source", "ednote", "paragraph", "division"}

\* C5 as stated: of two rendered children of one element, the one that
\* stands first in the source stands first in content.
C5_DocumentOrder ==
    \A f \in Complete :
        LET items == stack[f].content
        IN \A i, j \in DOMAIN items :
               (/\ items[i].kind \in Bodies
                /\ items[j].kind \in Bodies
                /\ items[i].at < items[j].at) => i < j

\* C5: of two rendered children of one element that are both paragraphs, or
\* both recursed children, the one that stands first in the source stands
\* first in content; and every paragraph stands before every recursed child,
\* also a paragraph that follows the child in the source.
C5_OrderWithinKind ==
    \A f \in Complete :
        LET items == stack[f].content
        IN \A i, j \in DOMAIN items :
               /\ (/\ items[i].kind = items[j].kind
                   /\ items[i].kind \in {"paragraph", "division"}
                   /\ items[i].at < items[j].at) => i < j
               /\ (/\ items[i].kind = "paragraph"
                   /\ items[j].kind = "division") => i < j

\* a division <DIV8/>, <P>One.</P>, <P>Two ...</P> gone through: the two
\* paragraphs in their source order, both before the child they follow
C5_Witness ==
    /\ pc = "walk"
    /\ tree = PartOf(<<K_DIV8, K_P1, K_P2>>)
    /\ Len(stack) = 1
    /\ 1 \in Complete
    /\ Kinds(stack[1].content) = <<"paragraph", "paragraph", "division">>
    /\ [i \in 1..3 |-> stack[1].content[i].at] = <<2, 3, 1>>
    /\ stack[1].content[1].text = NL \o X_One \o NL

\* C12 as stated: a paragraph of the tree pipeline is rendered with its
\* mandatory terms in "**" and its permissive terms in "*": the item of a
\* direct P child whose text holds no list prefix and no cross-reference is
\* the emphasised text of the child between two line ends.
C12_ParagraphKeywordsEmphasised ==
    \A f \in Started :
        LET items == stack[f].content
            e == stack[f].elem
        IN \A i \in DOMAIN items :
               LET plain == extract_text_content(e.kids[items[i].at])
               IN (/\ items[i].kind = "paragraph"
                   /\ plain # <<>>
                   /\ PlainBody(plain))
                  => items[i].text = NL \o Emphasised(plain) \o NL

\* the structural type of an element: its TYPE attribute in upper case
TypeOf(e) == UpperStr(Get(e, "TYPE", <<>>))

\* the positions of the children of e that are divisions of another type
OtherTypeAts(e) ==
    {k \in DOMAIN e.kids :
        /\ Len(e.kids[k].tag) >= 3
        /\ SubSeq(e.kids[k].tag, 1, 3) = <<"D", "I", "V">>
        /\ TypeOf(e.kids[k]) # TypeOf(e)}

\* C19 as stated: a call of process_division that has gone through its
\* children holds, for every child division whose type differs from its
\* own, also one with its own tag, an item with the rendering of the child,
\* which starts with the heading of the child if the child has one.
C19_ChildOfOtherTypeRendered ==
    \A f \in Complete :
        LET e == stack[f].elem
            items == stack[f].content
        IN \A k \in OtherTypeAts(e) :
               \E i \in DOMAIN items :
                   /\ items[i].kind = "division"
                   /\ items[i].at = k
                   /\ HeadingPieces(e.kids[k]) # <<>>
                          => StartsWith(items[i].text, HeadingPieces(e.kids[k])[1].text)

\* the entry of the context for a division type
EntryFor(ctx, div_type) ==
    CASE div_type = <<"T", "I", "T", "L", "E">> -> ctx.title
      [] div_type = <<"C", "H", "A", "P", "T", "E", "R">> -> ctx.chapter
      [] div_type = <<"P", "A", "R", "T">> -> ctx.part
      [] div_type = <<"S", "U", "B", "P", "A", "R", "T">> -> ctx.subpart
      [] div_type = <<"S", "E", "C", "T", "I", "O", "N">> -> ctx.section

\* the types the context has an entry for
ContextTypes ==
    {<<"T", "I", "T", "L", "E">>, <<"C", "H", "A", "P", "T", "E", "R">>,
     <<"P", "A", "R", "T">>, <<"S", "U", "B", "P", "A", "R", "T">>,
     <<"S", "E", "C", "T", "I", "O", "N">>}

\* the calls above the innermost one that are for a division of the given
\* type with a HEAD child
AncestorsOfType(div_type) ==
    {f \in 1..(Len(stack) - 1) :
        TypeOf(stack[f].elem) = div_type /\ Find(stack[f].elem, T_HEAD) # 0}

\* C20 as stated: when process_division starts on an element, the entry of
\* current_context for each of title, chapter, part, subpart and section is
\* the heading text of the nearest ancestor of that type with a heading, if
\* the element has such an ancestor.
C20_ContextHoldsAncestry ==
    (stack # <<>> /\ Top.step = "enter") =>
        \A div_type \in ContextTypes :
            AncestorsOfType(div_type) # {} =>
                LET f == CHOOSE a \in AncestorsOfType(div_type) :
                             \A b \in AncestorsOfType(div_type) : b <= a
                    e == stack[f].elem
                IN EntryFor(current_context, div_type)
                       = extract_text_content(e.kids[Find(e, T_HEAD)])

\* the heading level of a division type as the table of levels gives it
LevelOf(div_type) ==
    CASE div_type = <<"T", "I", "T", "L", "E">> -> 1
      [] div_type = <<"C", "H", "A", "P", "T", "E", "R">> -> 2
      [] div_type = <<"S", "U", "B", "C", "H", "A", "P">> -> 3
      [] div_type = <<"P", "A", "R", "T">> -> 4
      [] div_type = <<"S", "U", "B", "P", "A", "R", "T">> -> 5
      [] div_type = <<"S", "E", "C", "T", "I", "O", "N">> -> 6
      [] OTHER -> 6

\* the number of "#" characters a line starts with
RECURSIVE Hashes(_)
Hashes(line) ==
    IF line # <<>> /\ Head(line) = "#" THEN 1 + Hashes(Tail(line)) ELSE 0

\* C15: the heading level of every division type is a number from 1 to 6,
\* TITLE 1, CHAPTER 2, SUBCHAP 3, PART 4, SUBPART 5, SECTION 6, and 6 for
\* any other type and for a division without a type; the heading line of a
\* division starts with that many "#" characters followed by a space.
C15_HeadingLevelInRange ==
    /\ \A ty \in DivTypes :
           /\ get_heading_level(ty) \in 1..6
           /\ get_heading_level(ty) = LevelOf(ty)
    /\ \A f \in Started :
           LET items == stack[f].content
               div_type == UpperStr(Get(stack[f].elem, "TYPE", <<>>))
           IN \A i \in DOMAIN items :
                  items[i].kind = "heading"
                  => LET line == Tail(items[i].text)
                     IN /\ Head(items[i].text) = "\n"
                        /\ Hashes(line) \in 1..6
                        /\ Hashes(line) = LevelOf(div_type)
                        /\ line[Hashes(line) + 1] = " "

\* C15: a division of a type the table does not hold has its heading at
\* level 6, and a division of type 'subchap' at level 3
C15_Witness ==
    /\ Len(stack) = 1
    /\ 1 \in Started
    /\ stack[1].content # <<>>
    /\ stack[1].content[1].kind = "heading"
    /\ \/ /\ tree = DivOf(TY_APPENDIX)
          /\ stack[1].content[1].text
                 = <<"\n", "#", "#", "#", "#", "#", "#", " ">> \o X_Part \o <<"\n">>
       \/ /\ tree = DivOf(TY_subchap)
          /\ stack[1].content[1].text
                 = <<"\n", "#", "#", "#", " ">> \o X_Part \o <<"\n">>

\* the marker of an inline element as C23 gives it: an E is bold for the
\* type codes 01 and 02 and italic otherwise, I is italic, B bold, SU "^",
\* SB "_"
MarkerStated(child) ==
    CASE child.tag = <<"E">> ->
             IF Get(child, "T", <<>>) \in {<<"0", "1">>, <<"0", "2">>}
             THEN <<"*", "*">> ELSE <<"*">>
      [] child.tag = <<"I">> -> <<"*">>
      [] child.tag = <<"B">> -> <<"*", "*">>
      [] child.tag = <<"S", "U">> -> <<"^">>
      [] child.tag = <<"S", "B">> -> <<"_">>
      [] OTHER -> <<>>

\* the text of an element with every child wrapped in its stated marker,
\* the text after the child following the closing marker
TextStated(element) ==
    ecfr_clean_text(
        element.text
        \o Join(<<>>, [i \in DOMAIN element.kids |->
                          MarkerStated(element.kids[i])
                          \o extract_text_content(element.kids[i])
                          \o MarkerStated(element.kids[i])
                          \o element.kids[i].tail]))

\* C23 as stated: the item of a paragraph is its text with each inline child
\* wrapped in its marker, "**" or "*" for an E by its type code and "*"
\* without a bold code, "*" for I, "**" for B, "^" for SU, "_" for SB, the
\* text after the child following the closing marker.
C23_InlineMarkersWrapInnerText ==
    \A f \in Started :
        LET items == stack[f].content
            e == stack[f].elem
        IN \A i \in DOMAIN items :
               (items[i].kind = "paragraph" /\ TextStated(e.kids[items[i].at]) # <<>>)
               => items[i].text = <<"\n">> \o TextStated(e.kids[items[i].at]) \o <<"\n">>

\* process_division is about to start on the element of the innermost call
Visiting == pc = "walk" /\ stack # <<>> /\ Top.step = "enter"

\* the element has a HEAD child
HasHead(e) == Find(e, T_HEAD) # 0

\* the heading text of an element that has a HEAD child
HeadText(e) == extract_text_content(e.kids[Find(e, T_HEAD)])

\* the heading items among the items the innermost call starts with, after
\* the step
HeadingItemsAfter ==
    LET items == stack'[Len(stack)].content
    IN {i \in DOMAIN items : items[i].kind = "heading"}

\* an element of one of the five types with a HEAD sets the entry of its own
\* type to its heading text and no other entry
OwnEntryOnly ==
    LET e == Top.elem
    IN (HasHead(e) /\ TypeOf(e) \in ContextTypes) =>
           \A div_type \in ContextTypes :
               EntryFor(current_context', div_type) =
                   IF div_type = TypeOf(e) THEN HeadText(e)
                   ELSE EntryFor(current_context, div_type)

\* C21 as stated: the visit of an element of one of the five types with a
\* heading sets the entry of its type only; the visit of an element without
\* a HEAD child, or of any other type, leaves current_context as it is and
\* puts no heading line in content.
C21_VisitSetsOwnEntryOnly ==
    [][Visiting =>
          /\ OwnEntryOnly
          /\ (~HasHead(Top.elem) \/ TypeOf(Top.elem) \notin ContextTypes) =>
                 /\ current_context' = current_context
                 /\ HeadingItemsAfter = {}]_vars

\* C21, amended: the visit of an element of one of the five types with a
\* heading sets the entry of its type only; the visit of an element without
\* a HEAD child, or of any other type, leaves current_context as it is; an
\* element without a HEAD child puts no heading line in content, and an
\* element of another type with a HEAD child puts its heading line there, at
\* the level of its type.
C21_VisitSetsOwnEntryOnlyHeadingKept ==
    [][Visiting =>
          /\ OwnEntryOnly
          /\ (~HasHead(Top.elem) \/ TypeOf(Top.elem) \notin ContextTypes) =>
                 current_context' = current_context
          /\ ~HasHead(Top.elem) => HeadingItemsAfter = {}
          /\ (HasHead(Top.elem) /\ TypeOf(Top.elem) \notin ContextTypes) =>
                 /\ HeadingItemsAfter = {1}
                 /\ Hashes(Tail(stack'[Len(stack)].content[1].text))
                        = LevelOf(TypeOf(Top.elem))]_vars

\* C21: the SUBCHAP division with a HEAD has been visited: its heading line
\* is in content at level 3 and current_context is as it was before
C21_Witness ==
    /\ tree = DivOf(TY_SUBCHAP)
    /\ Len(stack) = 1
    /\ 1 \in Started
    /\ current_context = NoContext
    /\ stack[1].content[1].kind = "heading"
    /\ stack[1].content[1].text = <<"\n", "#", "#", "#", " ">> \o X_Part \o <<"\n">>

----------------------------------------------------------------------------
(* The tree pipeline on a section: process_division on a <DIV8> whose HEAD  *)
(* is short text over a small alphabet, called directly or through the     *)
(* part it stands in.                                                      *)

\* the longest enumerated HEAD text
MaxHeadLen == 3

\* the characters the enumerated HEAD texts are made of
HeadChars == {"1", "0", ".", "-", SectionSign}

\* '101.10'
X_Number == <<"1", "0", "1", ".", "1", "0">>

\* '1.5 Scope'
X_Titled == <<"1", ".", "5", " ", "S", "c", "o", "p", "e">>

HeadTexts == UNION {[1..n -> HeadChars] : n \in 0..MaxHeadLen} \cup {X_Number, X_Titled}

\* 'section'
TY_section == <<"s", "e", "c", "t", "i", "o", "n">>

\* the TYPE attributes of the enumerated <DIV8>
SectionTypes == {TY_SECTION, TY_section, TY_PART}

\* <DIV8 TYPE=ty><HEAD>head</HEAD><P>Sec.</P></DIV8>
SectionOf(ty, head) ==
    Elem(T_DIV8, <<<<"TYPE", ty>>>>, <<>>, <<Leaf(T_HEAD, head), Leaf(T_P, X_Sec)>>, <<>>)

SectionTrees ==
    {SectionOf(ty, head) : ty \in SectionTypes, head \in HeadTexts}
    \cup {PartOf(<<K_HEAD, SectionOf(ty, head)>>) : ty \in SectionTypes, head \in HeadTexts}

InitSection ==
    /\ pc = "walk"
    /\ tree \in SectionTrees
    /\ stack = <<Frame(tree, 1)>>
    /\ current_context = NoContext
    /\ result = <<>>
    /\ SegIdle
    /\ FmtIdle
    /\ DocIdle
    /\ MainIdle
    /\ ClassIdle

SpecSection == InitSection /\ [][NextTree]_vars

----------------------------------------------------------------------------
(* Claims about the heading of a section, checked under SpecSection.       *)

\* the text of the HEAD child of e, as the source document has it
HeadOf(e) == e.kids[CHOOSE k \in DOMAIN e.kids : e.kids[k].tag = T_HEAD].text

\* e is a <DIV8 TYPE="SECTION"> with a HEAD of one character or more, all
\* digits, dots and dashes
NumberedSection(e) ==
    /\ Get(e, "TYPE", <<>>) = TY_SECTION
    /\ \E k \in DOMAIN e.kids : e.kids[k].tag = T_HEAD
    /\ HeadOf(e) # <<>>
    /\ \A i \in DOMAIN HeadOf(e) : HeadOf(e)[i] \in Digits \cup {".", "-"}

\* the heading line of level 6 with the section sign before the number
SignedHeading(number) ==
    <<"#", "#", "#", "#", "#", "#", " ", SectionSign, " ">> \o number

\* the first item of content of call f is the line SignedHeading of the
\* HEAD text, between two line ends
HeadingIsSigned(f) ==
    /\ stack[f].content # <<>>
    /\ stack[f].content[1].kind = "heading"
    /\ stack[f].content[1].text
           = NL \o SignedHeading(HeadOf(stack[f].elem)) \o NL

Signs(txt) == Cardinality({i \in DOMAIN txt : txt[i] = SectionSign})

\* C22 as stated: the heading of a SECTION with a HEAD child is "###### "
\* followed by the formatted HEAD text, which starts with the section sign
\* and holds it once; formatting the formatted text again changes nothing.
C22_SectionSignExactlyOnce ==
    \A f \in Started :
        LET e == stack[f].elem
            shown == format_section_number(HeadText(e))
        IN (TypeOf(e) = <<"S", "E", "C", "T", "I", "O", "N">> /\ HasHead(e)) =>
               /\ stack[f].content[1].text
                      = <<"\n", "#", "#", "#", "#", "#", "#", " ">> \o shown \o <<"\n">>
               /\ shown # <<>>
               /\ Head(shown) = SectionSign
               /\ Signs(shown) = 1
               /\ format_section_number(shown) = shown

----------------------------------------------------------------------------
(* The text pipeline on a file, step by step: parse_full_document() on a   *)
(* parser that has just been made.                                         *)

\* the most pages the enumerated file has
MaxPages == 3

\* '1 Scope\nApplies.'
PG_ScopeText == <<"1", " ", "S", "c", "o", "p", "e", "\n", "A", "p", "p",
                  "l", "i", "e", "s", ".">>

\* '1.1 General\nSee 2.3.4.'
PG_GeneralText == <<"1", ".", "1", " ", "G", "e", "n", "e", "r", "a", "l",
                    "\n", "S", "e", "e", " ", "2", ".", "3", ".", "4", ".">>

\* '  \n'
PG_BlankText == <<" ", " ", "\n">>

PG_Scope == Page(TRUE, PG_ScopeText)

PG_General == Page(TRUE, PG_GeneralText)

\* a page of blanks: its text is not empty, its cleaned text is
PG_Blank == Page(TRUE, PG_BlankText)

\* a page with no text
PG_Empty == Page(TRUE, <<>>)

\* a page whose extraction raises
PG_Broken == Page(FALSE, <<>>)

\* the pages the enumerated files are made of
PageSet == {PG_Scope, PG_General, PG_Blank, PG_Empty, PG_Broken}

\* 'hy-'
PG_HyText == <<"h", "y", "-">>

\* 'phen'
PG_PhenText == <<"p", "h", "e", "n">>

\* a page that ends in the first half of a word split at the hyphen
PG_Hy == Page(TRUE, PG_HyText)

\* a page that starts with the second half of the word
PG_Phen == Page(TRUE, PG_PhenText)

\* one page with the word split between two of its lines
PG_HyPhen == Page(TRUE, PG_HyText \o NL \o PG_PhenText)

\* the files with a split word: split between two pages, and within a page
SplitWordPdfs == {<<PG_Hy, PG_Phen>>, <<PG_Scope, PG_Hy, PG_Phen>>, <<PG_HyPhen>>}

\* 'Page 1\n1 Scope'
PG_FirstLineText == <<"P", "a", "g", "e", " ", "1", "\n", "1", " ", "S", "c",
                      "o", "p", "e">>

\* 'x\nPage 1\nPage 2\ny'
PG_FootersText == <<"x", "\n", "P", "a", "g", "e", " ", "1", "\n", "P", "a",
                    "g", "e", " ", "2", "\n", "y">>

\* 'x\nPage 1\ny'
PG_FooterText == <<"x", "\n", "P", "a", "g", "e", " ", "1", "\n", "y">>

\* the files with page-number lines: as the first line of the page, two in
\* a row, and one between two lines of text
FooterPdfs ==
    {<<Page(TRUE, PG_FirstLineText)>>, <<Page(TRUE, PG_FootersText)>>,
     <<Page(TRUE, PG_FooterText)>>}

Pdfs == UNION {[1..n -> PageSet] : n \in 0..MaxPages} \cup SplitWordPdfs \cup FooterPdfs

\* 'Scope'
B_Scope == <<"S", "c", "o", "p", "e">>

\* 'General'
B_General == <<"G", "e", "n", "e", "r", "a", "l">>

\* get_toc() raising, returning no bookmarks, returning two
BookmarkSet ==
    {Bookmarks(FALSE, <<>>),
     Bookmarks(TRUE, <<>>),
     Bookmarks(TRUE, <<[level |-> 1, title |-> B_Scope, page |-> 1],
                       [level |-> 2, title |-> B_General, page |-> 12]>>)}

InitDoc ==
    /\ pc = "open"
    /\ pdf \in Pdfs
    /\ bookmarks = Bookmarks(TRUE, <<>>)
    /\ doc = <<>>
    /\ self_sections = <<>>
    /\ page_num = 0
    /\ all_text = <<>>
    /\ page_of = <<>>
    /\ full_text = <<>>
    /\ doc_sections = <<>>
    /\ toc = <<>>
    /\ final_content = <<>>
    /\ SegIdle
    /\ FmtIdle
    /\ TreeIdle
    /\ MainIdle
    /\ ClassIdle

\* open_pdf() returns True
OpenPdf ==
    /\ pc = "open"
    /\ doc' = <<pdf>>
    /\ page_num' = 0
    /\ all_text' = <<>>
    /\ page_of' = <<>>
    /\ pc' = "pages"
    /\ UNCHANGED <<pdf, bookmarks, self_sections, full_text, doc_sections, toc,
                   final_content>>
    /\ UNCHANGED notDoc

\* open_pdf() returns False: return ""
OpenFails ==
    /\ pc = "open"
    /\ final_content' = <<>>
    /\ pc' = "returned"
    /\ UNCHANGED <<pdf, bookmarks, doc, self_sections, page_num, all_text, page_of,
                   full_text, doc_sections, toc>>
    /\ UNCHANGED notDoc

\* the loop over the pages, a page whose cleaned text is appended
KeepPage ==
    /\ pc = "pages"
    /\ page_num < Len(doc[1])
    /\ ExtractPage(doc[1], page_num, all_text) # all_text
    /\ all_text' = ExtractPage(doc[1], page_num, all_text)
    /\ page_of' = Append(page_of, page_num)
    /\ page_num' = page_num + 1
    /\ UNCHANGED <<pc, pdf, bookmarks, doc, self_sections, full_text, doc_sections,
                   toc, final_content>>
    /\ UNCHANGED notDoc

\* the loop over the pages, a page that adds nothing to all_text
SkipPage ==
    /\ pc = "pages"
    /\ page_num < Len(doc[1])
    /\ ExtractPage(doc[1], page_num, all_text) = all_text
    /\ page_num' = page_num + 1
    /\ UNCHANGED <<pc, pdf, bookmarks, doc, self_sections, all_text, page_of,
                   full_text, doc_sections, toc, final_content>>
    /\ UNCHANGED notDoc

\* after the loop: full_text and sections
Combine ==
    /\ pc = "pages"
    /\ page_num >= Len(doc[1])
    /\ full_text' = CombineText(all_text)
    /\ doc_sections' = identify_sections(CombineText(all_text))
    /\ pc' = "toc"
    /\ UNCHANGED <<pdf, bookmarks, doc, self_sections, page_num, all_text, page_of,
                   toc, final_content>>
    /\ UNCHANGED notDoc

\* toc = self.extract_table_of_contents(), with what get_toc() does when it
\* is called
Toc ==
    /\ pc = "toc"
    /\ \E b \in BookmarkSet :
           /\ bookmarks' = b
           /\ toc' = extract_table_of_contents(b)
    /\ pc' = "format"
    /\ UNCHANGED <<pdf, doc, self_sections, page_num, all_text, page_of,
                   full_text, doc_sections, final_content>>
    /\ UNCHANGED notDoc

\* return toc + self.format_for_vector_storage(sections)
ReturnContent ==
    /\ pc = "format"
    /\ final_content' = toc \o format_for_vector_storage(doc_sections)
    /\ pc' = "returned"
    /\ UNCHANGED <<pdf, bookmarks, doc, self_sections, page_num, all_text, page_of,
                   full_text, doc_sections, toc>>
    /\ UNCHANGED notDoc

NextDoc ==
    OpenPdf \/ OpenFails \/ KeepPage \/ SkipPage \/ Combine \/ Toc \/ ReturnContent

SpecDoc == InitDoc /\ [][NextDoc]_vars

----------------------------------------------------------------------------
(* Claims about parse_full_document, checked under SpecDoc.                *)

\* the page with number k (from 0) could be read
Readable(pages, k) == pages[k + 1].ok

\* the page with number k (from 0) could be read and its cleaned text is not
\* empty
Contributes(pages, k) ==
    pages[k + 1].ok /\ clean_text(pages[k + 1].text) # <<>>

\* the numbers (from 0) of the pages of the file
PageNums(pages) == 0..(Len(pages) - 1)

\* the cleaned texts of the pages that contribute, in page order
Contributions(pages) ==
    SelectSeq([i \in DOMAIN pages |->
                  IF pages[i].ok THEN clean_text(pages[i].text) ELSE <<>>],
              LAMBDA t : t # <<>>)

\* the loop over the pages is over
PagesDone == doc # <<>> /\ pc \in {"toc", "format", "returned"}

\* C9: a page whose extraction fails adds no entry to all_text, and the run
\* goes on to the pages after it: the entries of all_text are made from
\* pages in rising page order, each from a page that was read, each the
\* cleaned text of its page; every page gone through that has a cleaned text
\* has its entry; once the loop is over every page has been gone through and
\* full_text is the cleaned texts of the contributing pages, in page order,
\* with a blank line between them and nothing else.
C9_FailedPageSkipped ==
    /\ Len(page_of) = Len(all_text)
    /\ \A i, j \in DOMAIN page_of : i < j => page_of[i] < page_of[j]
    /\ \A i \in DOMAIN page_of :
           /\ page_of[i] \in PageNums(pdf)
           /\ page_of[i] < page_num
           /\ Readable(pdf, page_of[i])
           /\ all_text[i] = clean_text(pdf[page_of[i] + 1].text)
    /\ doc # <<>> =>
           \A k \in PageNums(pdf) :
               (k < page_num /\ Contributes(pdf, k))
               => \E i \in DOMAIN page_of : page_of[i] = k
    /\ PagesDone =>
           /\ page_num = Len(pdf)
           /\ full_text = Join(<<"\n", "\n">>, Contributions(pdf))

\* a file of three pages, the middle one failing, gone through to the end:
\* full_text is made of the first and the third page, and what is returned
\* is what the two pages alone give
C9_Witness ==
    /\ pc = "returned"
    /\ pdf = <<PG_Scope, PG_Broken, PG_General>>
    /\ page_of = <<0, 2>>
    /\ full_text = PG_ScopeText \o <<"\n", "\n">> \o PG_GeneralText
    /\ Len(doc_sections) = 2
    /\ final_content = parse_full_document(<<PG_Scope, PG_General>>, bookmarks)

\* the number of pages of the file that added no text
ZeroTextPages(pages) ==
    Cardinality({k \in PageNums(pages) : ~Contributes(pages, k)})

\* the file with the pages that add no text taken out
WithoutZeroTextPages(pages) ==
    SelectSeq(pages, LAMBDA page : page.ok /\ clean_text(page.text) # <<>>)

\* C10 as stated: what parse_full_document returns, with self.sections,
\* carries the number of pages that added no text; so the run on a file with
\* such pages does not return and leave what the run on the file without
\* them returns and leaves.
C10_ZeroTextPagesReported ==
    (pc = "returned" /\ doc # <<>> /\ ZeroTextPages(pdf) > 0)
    => <<final_content, self_sections>>
           # <<parse_full_document(WithoutZeroTextPages(pdf), bookmarks), <<>>>>

\* t ends in a word followed by a hyphen
EndsSplit(t) ==
    Len(t) >= 2 /\ t[Len(t)] = "-" /\ t[Len(t) - 1] \in WordChars

\* t begins with a word
BeginsWord(t) == t # <<>> /\ t[1] \in WordChars

\* the file of one page that holds the texts of two pages on two lines
OnOnePage(first, second) == <<Page(TRUE, first.text \o NL \o second.text)>>

\* C11 as stated: a word split by a hyphen between two pages is rejoined as
\* a word split between two lines of one page is; full_text of a file of
\* two such pages is full_text of the file with the two texts on one page.
C11_SplitWordRejoinedAcrossPages ==
    (/\ PagesDone
     /\ Len(pdf) = 2
     /\ pdf[1].ok /\ pdf[2].ok
     /\ EndsSplit(pdf[1].text)
     /\ BeginsWord(pdf[2].text))
    => full_text = CombineText(ExtractFrom(OnOnePage(pdf[1], pdf[2]), 0, <<>>))

\* the line without its leading whitespace
LeftStripped(line) ==
    LET keep == {i \in DOMAIN line : line[i] \notin {" ", "\t", "\r", "\f"}}
    IN IF keep = {} THEN <<>>
       ELSE SubSeq(line, CHOOSE i \in keep : \A j \in keep : i <= j, Len(line))

\* a boilerplate line: after leading whitespace it begins with 'Page ' and a
\* digit, with 'ABS' or with 'PART 7'
IsBoilerplate(line) ==
    LET t == LeftStripped(line)
    IN \/ /\ StartsWith(t, <<"P", "a", "g", "e", " ">>)
          /\ Len(t) >= 6
          /\ t[6] \in {"0", "1", "2", "3", "4", "5", "6", "7", "8", "9"}
       \/ StartsWith(t, <<"A", "B", "S">>)
       \/ StartsWith(t, <<"P", "A", "R", "T", " ", "7">>)

\* C25 as stated: no line of a cleaned page text is a boilerplate line, also
\* when the boilerplate line is the first line of the page or follows
\* another boilerplate line.
C25_NoBoilerplateLineLeft ==
    \A k \in DOMAIN all_text :
        \A i \in DOMAIN SplitLines(all_text[k]) : ~IsBoilerplate(SplitLines(all_text[k])[i])

----------------------------------------------------------------------------
(* main() of ecfr_xml_to_markdown.py, step by step: one converter, the     *)
(* files of files_to_convert converted one after the other.                *)

\* 'ECFR'
T_ECFR == <<"E", "C", "F", "R">>

\* 'Title 33'
X_Title33 == <<"T", "i", "t", "l", "e", " ", "3", "3">>

\* 'Title 46'
X_Title46 == <<"T", "i", "t", "l", "e", " ", "4", "6">>

\* 'Chapter I'
X_Chapter == <<"C", "h", "a", "p", "t", "e", "r", " ", "I">>

\* 'Jan. 1'
X_Date == <<"J", "a", "n", ".", " ", "1">>

\* '33'
X_Num == <<"3", "3">>

\* '[CGD 77]'
X_Cite == <<"[", "C", "G", "D", " ", "7", "7", "]">>

\* <DIV5 TYPE="PART"><HEAD>Part 1</HEAD> section 1.5 </DIV5>
E_Part == PartOf(<<K_HEAD, K_DIV8>>)

\* <DIV1 TYPE="TITLE"><HEAD>head</HEAD> part 1 </DIV1>
TitleOf(head) ==
    Elem(T_DIV1, <<<<"TYPE", TY_TITLE>>>>, <<>>, <<Leaf(T_HEAD, head), E_Part>>, <<>>)

\* <DIV1 TYPE="CHAPTER"><HEAD>Chapter I</HEAD><P>One.</P></DIV1>
E_Chapter ==
    Elem(T_DIV1, <<<<"TYPE", TY_CHAPTER>>>>, <<>>, <<Leaf(T_HEAD, X_Chapter), K_P1>>, <<>>)

\* <DIV1 TYPE="TITLE"><P>One.</P></DIV1>: no HEAD
E_Bare == Elem(T_DIV1, <<<<"TYPE", TY_TITLE>>>>, <<>>, <<K_P1>>, <<>>)

\* <DIV8 TYPE="SECTION"><HEAD>1.5</HEAD><P>Sec.</P><CITA>[CGD 77]</CITA></DIV8>
E_Section ==
    Elem(T_DIV8, <<<<"TYPE", TY_SECTION>>>>, <<>>,
         <<Leaf(T_HEAD, X_SecNo), Leaf(T_P, X_Sec), Leaf(T_CITA, X_Cite)>>, <<>>)

\* 'SUBJGRP'
T_SUBJGRP == <<"S", "U", "B", "J", "G", "R", "P">>

\* <DIV1 TYPE="TITLE"><HEAD>Title 33</HEAD>
\*   <SUBJGRP> section 1.5 </SUBJGRP></DIV1>: the section stands in a child
\* of the DIV1 that is no division
E_Grouped ==
    Elem(T_DIV1, <<<<"TYPE", TY_TITLE>>>>, <<>>,
         <<Leaf(T_HEAD, X_Title33), Elem(T_SUBJGRP, <<>>, <<>>, <<K_DIV8>>, <<>>)>>, <<>>)

\* <ECFR> with the given children
RootOf(kids) == Elem(T_ECFR, <<>>, <<>>, kids, <<>>)

\* the root of a file that does not parse: there is none
NoRoot == RootOf(<<>>)

\* the element trees of the enumerated files
Roots ==
    {RootOf(<<Leaf(T_AMDDATE, X_Date), TitleOf(X_Title33)>>),
     RootOf(<<Leaf(TY_TITLE, X_Title46),
              Elem(T_IDNO, <<<<"TYPE", A_title>>>>, X_Num, <<>>, <<>>),
              TitleOf(X_Title46), E_Chapter>>),
     RootOf(<<E_Bare, E_Section>>),
     RootOf(<<E_Chapter>>),
     RootOf(<<E_Section>>),
     RootOf(<<E_Grouped>>),
     RootOf(<<>>)}

\* the enumerated files: the ones that parse, one that does not, one that
\* is not there
FileSet ==
    {File(TRUE, TRUE, root) : root \in Roots}
    \cup {File(TRUE, FALSE, NoRoot), File(FALSE, FALSE, NoRoot)}

\* files_to_convert holds two entries
FileLists == {<<first, second>> : first \in FileSet, second \in FileSet}

InitMain ==
    /\ pc = "main"
    /\ files \in FileLists
    /\ file_idx = 0
    /\ file_content = <<>>
    /\ div_idx = 0
    /\ rendered = [i \in DOMAIN files |-> 0]
    /\ raised = [i \in DOMAIN files |-> FALSE]
    /\ written = [i \in DOMAIN files |-> <<>>]
    /\ success_count = 0
    /\ exit_code = <<>>
    /\ TreeIdle
    /\ SegIdle
    /\ FmtIdle
    /\ DocIdle
    /\ ClassIdle

\* "if missing_files: ... return 1"
MissingFiles ==
    /\ pc = "main"
    /\ \E i \in DOMAIN files : ~files[i].exists
    /\ exit_code' = <<1>>
    /\ pc' = "exit"
    /\ UNCHANGED <<files, file_idx, file_content, div_idx, rendered, raised, written,
                   success_count, treeVars>>
    /\ UNCHANGED notMain

\* no file is missing: the loop over files_to_convert starts
StartLoop ==
    /\ pc = "main"
    /\ \A i \in DOMAIN files : files[i].exists
    /\ file_idx' = 1
    /\ success_count' = 0
    /\ pc' = "convert"
    /\ UNCHANGED <<files, file_content, div_idx, rendered, raised, written, exit_code,
                   treeVars>>
    /\ UNCHANGED notMain

\* convert_file: ET.parse raises, the handler logs and raises again; main
\* logs the failure and goes on with the next file
ParseFails ==
    /\ pc = "convert"
    /\ file_idx \in DOMAIN files
    /\ ~files[file_idx].parses
    /\ raised' = [raised EXCEPT ![file_idx] = ErrorRaised]
    /\ success_count' = IF ErrorRaised THEN success_count ELSE success_count + 1
    /\ file_idx' = file_idx + 1
    /\ UNCHANGED <<pc, files, file_content, div_idx, rendered, written, exit_code,
                   treeVars>>
    /\ UNCHANGED notMain

\* convert_file: ET.parse returns; the metadata and the header of content
Parse ==
    /\ pc = "convert"
    /\ file_idx \in DOMAIN files
    /\ files[file_idx].parses
    /\ file_content' = FileHeader(files[file_idx].root)
    /\ div_idx' = 1
    /\ pc' = "divisions"
    /\ UNCHANGED <<files, file_idx, rendered, raised, written, success_count, exit_code,
                   treeVars>>
    /\ UNCHANGED notMain

\* the call self.process_division(div1), for one DIV1: the steps Enter,
\* Skip, Descend and Return carry it out
CallDivision ==
    /\ pc = "divisions"
    /\ div_idx <= Len(Div1Paths(files[file_idx].root))
    /\ tree' = ElemAt(files[file_idx].root, Div1Paths(files[file_idx].root)[div_idx])
    /\ stack' = <<Frame(tree', 1)>>
    /\ result' = <<>>
    /\ rendered' = [rendered EXCEPT ![file_idx] = @ + 1]
    /\ pc' = "walk"
    /\ UNCHANGED <<files, file_idx, file_content, div_idx, raised, written,
                   success_count, exit_code, current_context>>
    /\ UNCHANGED notMain

\* content.append(...) of what the call returned
AppendDivision ==
    /\ pc = "done"
    /\ file_idx \in DOMAIN files
    /\ file_content' = Append(file_content, result)
    /\ div_idx' = div_idx + 1
    /\ pc' = "divisions"
    /\ UNCHANGED <<files, file_idx, rendered, raised, written, success_count,
                   exit_code, treeVars>>
    /\ UNCHANGED notMain

\* the loop over the remaining top-level sections
RenderSections ==
    /\ pc = "divisions"
    /\ div_idx > Len(Div1Paths(files[file_idx].root))
    /\ file_content' = file_content \o SectionTexts(files[file_idx].root)
    /\ pc' = "write"
    /\ UNCHANGED <<files, file_idx, div_idx, rendered, raised, written, success_count,
                   exit_code, treeVars>>
    /\ UNCHANGED notMain

\* f.write('\n'.join(content)); back in main, success_count += 1
WriteOutput ==
    /\ pc = "write"
    /\ written' = [written EXCEPT ![file_idx] = <<Join(NL, file_content)>>]
    /\ success_count' = success_count + 1
    /\ file_idx' = file_idx + 1
    /\ pc' = "convert"
    /\ UNCHANGED <<files, file_content, div_idx, rendered, raised, exit_code,
                   treeVars>>
    /\ UNCHANGED notMain

\* after the loop: return 0 when every file was converted, else 1
Exit ==
    /\ pc = "convert"
    /\ file_idx > Len(files)
    /\ exit_code' = IF success_count = Len(files) THEN <<0>> ELSE <<1>>
    /\ pc' = "exit"
    /\ UNCHANGED <<files, file_idx, file_content, div_idx, rendered, raised, written,
                   success_count, treeVars>>
    /\ UNCHANGED notMain

NextMain ==
    MissingFiles \/ StartLoop \/ ParseFails \/ Parse \/ CallDivision \/ Enter
    \/ Skip \/ Descend \/ Return \/ AppendDivision \/ RenderSections
    \/ WriteOutput \/ Exit

SpecMain == InitMain /\ [][NextMain]_vars

----------------------------------------------------------------------------
(* Claims about main and convert_file, checked under SpecMain.             *)

\* the conversion of the file at file_idx is about to start
ConversionStarts == pc = "convert" /\ file_idx \in DOMAIN files

\* C13 as stated: whenever the conversion of a document starts, every entry
\* of current_context is empty.
C13_ContextEmptyAtDocumentStart == ConversionStarts => current_context = NoContext

\* the loop of main is past the file at position i
Handled(i) == pc # "main" /\ i < file_idx

\* C14: convert_file on a file that does not parse raises, writes no output
\* and makes no call of process_division; an output is written only for a
\* file that parsed, after a call of process_division for each of its DIV1
\* elements.
C14_ParseErrorPropagates ==
    \A i \in DOMAIN files :
        /\ (Handled(i) /\ ~files[i].parses) => raised[i]
        /\ raised[i] => (~files[i].parses /\ written[i] = <<>> /\ rendered[i] = 0)
        /\ written[i] # <<>> =>
               /\ files[i].parses
               /\ ~raised[i]
               /\ rendered[i] = Len(Div1Paths(files[i].root))

\* main has returned; the first file did not parse, the second was written
C14_Witness ==
    /\ pc = "exit"
    /\ ~files[1].parses
    /\ raised = <<TRUE, FALSE>>
    /\ written[1] = <<>>
    /\ written[2] # <<>>
    /\ rendered[1] = 0
    /\ rendered[2] > 0
    /\ exit_code = <<1>>

----------------------------------------------------------------------------
(* One pass of the loop over the lines of identify_sections: the line is   *)
(* stripped, skipped when blank, and tried against the patterns in turn.   *)

\* the longest enumerated line, in tokens
MaxTokens == 3

\* '1'
TK_One == <<"1">>

\* '1.2'
TK_OneTwo == <<"1", ".", "2">>

\* '1.2.3'
TK_OneTwoThree == <<"1", ".", "2", ".", "3">>

\* ' x'
TK_Title == <<" ", "x">>

\* '.'
TK_Dot == <<".">>

\* 'A'
TK_Letter == <<"A">>

\* ' '
TK_Space == <<" ">>

\* 'TABLE '
TK_Table == <<"T", "A", "B", "L", "E", " ">>

\* 'figure '
TK_Figure == <<"f", "i", "g", "u", "r", "e", " ">>

\* 'CHAPTER '
TK_Chapter == <<"C", "H", "A", "P", "T", "E", "R", " ">>

\* 'SECTION '
TK_Section == <<"S", "E", "C", "T", "I", "O", "N", " ">>

\* '-x'
TK_Dash == <<"-", "x">>

\* the pieces the enumerated lines are made of
Tokens ==
    {TK_One, TK_OneTwo, TK_OneTwoThree, TK_Title, TK_Dot, TK_Letter,
     TK_Space, TK_Table, TK_Figure, TK_Chapter, TK_Section, TK_Dash}

ClassLines == {Join(<<>>, ts) : ts \in UNION {[1..n -> Tokens] : n \in 0..MaxTokens}}

InitClass ==
    /\ pc = "line"
    /\ raw_line \in ClassLines
    /\ verdict = <<>>
    /\ SegIdle
    /\ FmtIdle
    /\ TreeIdle
    /\ DocIdle
    /\ MainIdle

\* "line = line.strip()" and "if not line: continue"
SkipBlank ==
    /\ pc = "line"
    /\ Strip(raw_line) = <<>>
    /\ pc' = "skipped"
    /\ UNCHANGED classVars
    /\ UNCHANGED notClass

\* "for pattern, section_type in patterns" on a line that is not blank
Classify ==
    /\ pc = "line"
    /\ Strip(raw_line) # <<>>
    /\ verdict' = <<MatchLine(Strip(raw_line))>>
    /\ pc' = "classified"
    /\ UNCHANGED raw_line
    /\ UNCHANGED notClass

NextClass == SkipBlank \/ Classify

SpecClassify == InitClass /\ [][NextClass]_vars

----------------------------------------------------------------------------
(* Claims about the classification of a line, checked under SpecClassify.  *)

\* the patterns in the order chapter, section, table, figure, x.y.z, x.y, x,
\* letter with period
ListedOrder ==
    << [re |-> PatChapter,       type |-> "chapter"],
       [re |-> PatSection,       type |-> "section"],
       [re |-> PatTable,         type |-> "table"],
       [re |-> PatFigure,        type |-> "figure"],
       [re |-> PatSubsubsection, type |-> "subsubsection"],
       [re |-> PatSubsection,    type |-> "subsection"],
       [re |-> PatMainSection,   type |-> "main_section"],
       [re |-> PatItem,          type |-> "item"] >>

\* the positions in ListedOrder of the patterns that match the line
ListedHits(stripped) ==
    {k \in DOMAIN ListedOrder : ReMatch(ListedOrder[k].re, stripped, IgnoreCase).ok}

\* the type of the first pattern of ListedOrder that matches, "" if none does
ListedType(stripped) ==
    IF ListedHits(stripped) = {} THEN ""
    ELSE ListedOrder[CHOOSE k \in ListedHits(stripped) :
                         \A j \in ListedHits(stripped) : k <= j].type

\* C16: a line that is not blank gets the type of the first pattern that
\* matches it in the order chapter, section, table, figure, x.y.z, x.y, x,
\* letter with period, and no type if none matches: the order of the pattern
\* table of the code gives every line the same type; a table caption is
\* never a main section.
C16_FirstMatchInListedOrder ==
    pc = "classified" =>
        /\ verdict[1].matched = (ListedHits(Strip(raw_line)) # {})
        /\ verdict[1].type = ListedType(Strip(raw_line))
        /\ ReMatch(PatTable, Strip(raw_line), IgnoreCase).ok
               => verdict[1].type = "table"
        /\ StartsWith(Strip(raw_line), TK_Table) => verdict[1].type # "main_section"

\* C16: the table caption 'TABLE 1.2-x' is classified as a table, its number
\* being '1.2'
C16_Witness ==
    /\ pc = "classified"
    /\ raw_line = TK_Table \o TK_OneTwo \o TK_Dash
    /\ verdict[1].matched
    /\ verdict[1].type = "table"
    /\ verdict[1].number = TK_OneTwo

----------------------------------------------------------------------------
(* Claims about the sections of a file, checked under SpecMain.            *)

\* the number of places of txt at which sub stands
Occurrences(sub, txt) ==
    Cardinality({i \in 1..(Len(txt) - Len(sub) + 1) :
                    SubSeq(txt, i, i + Len(sub) - 1) = sub})

\* the heading line a rendered section stands under
SectionLine(section) ==
    <<"\n", "#", "#", "#", "#", "#", "#", " ">>
    \o format_section_number(HeadText(section)) \o <<"\n">>

\* C26 as stated: every DIV8 of type SECTION of a file is rendered once in
\* the output, by the descent from a DIV1 or by process_section: the text
\* written for the file holds the heading line of a section as many times
\* as the file has sections with that heading.
C26_EverySectionRenderedOnce ==
    \A i \in DOMAIN files :
        written[i] # <<>> =>
            \A k \in DOMAIN SectionPaths(files[i].root) :
                LET root == files[i].root
                    line == SectionLine(ElemAt(root, SectionPaths(root)[k]))
                IN Occurrences(line, written[i][1])
                       = Cardinality({j \in DOMAIN SectionPaths(root) :
                                         SectionLine(ElemAt(root, SectionPaths(root)[j]))
                                             = line})

\* C27: the text process_division returns for a DIV1 does not depend on
\* current_context at the call: on the converter that has converted the
\* file before, it is the text the call returns on a converter just made,
\* and on one whose current_context is as the call left it.
C27_TextIndependentOfContext ==
    (pc = "done" /\ file_idx \in DOMAIN files) =>
        /\ result = process_division(tree, NoContext).text
        /\ result = process_division(tree, current_context).text

\* C27: the DIV1 of the second file has been rendered by the converter that
\* rendered Title 33 before: the title entry is still the one of the first
\* file, and the text returned starts with the heading of the chapter
C27_Witness ==
    /\ pc = "done"
    /\ file_idx = 2
    /\ files[2].root = RootOf(<<E_Chapter>>)
    /\ tree = E_Chapter
    /\ current_context.title = X_Title33
    /\ current_context.chapter = X_Chapter
    /\ StartsWith(result, <<"\n", "#", "#", " ">> \o X_Chapter)

----------------------------------------------------------------------------
(* Claims about the headings format_for_vector_storage makes, checked      *)
(* under Spec.                                                             *)

\* the entries of markdown_content that are the heading of a unit: the first
\* entry made from the unit
HeadingEntries ==
    {a \in DOMAIN markdown_content :
        /\ markdown_content[a].unit > 0
        /\ markdown_content[a - 1].unit # markdown_content[a].unit}

\* the number of "#" the heading line of entry a starts with
Weight(a) == Hashes(Tail(markdown_content[a].text))

\* the type of the unit entry a was made from
TypeAt(a) == sections[markdown_content[a].unit].type

\* the depth of a type along chapter, section, main_section, subsection,
\* subsubsection, item; 0 for table and figure
Depth(type) ==
    CASE type = "chapter" -> 1
      [] type = "section" -> 2
      [] type = "main_section" -> 3
      [] type = "subsection" -> 4
      [] type = "subsubsection" -> 5
      [] type = "item" -> 6
      [] OTHER -> 0

\* the heading of a table or figure unit: the same number of "#" in every
\* place, then 'Table N - Title' or 'Figure N - Title'
CaptionHeadings ==
    \A a \in HeadingEntries :
        LET u == sections[markdown_content[a].unit]
        IN /\ u.type = "table" =>
                  markdown_content[a].text
                      = <<"\n", "#", "#", "#", " ", "T", "a", "b", "l", "e", " ">>
                        \o u.number \o <<" ", "-", " ">> \o u.title \o <<"\n">>
           /\ u.type = "figure" =>
                  markdown_content[a].text
                      = <<"\n", "#", "#", "#", " ", "F", "i", "g", "u", "r", "e", " ">>
                        \o u.number \o <<" ", "-", " ">> \o u.title \o <<"\n">>

\* C24 as stated: every heading line starts with 1 to 6 "#"; of two units on
\* the chain chapter, section, main_section, subsection, subsubsection, item
\* the deeper one has more "#"; table and figure headings have one fixed
\* number of "#" and the form 'Table N - Title', 'Figure N - Title'.
C24_WeightGrowsWithDepth ==
    /\ \A a \in HeadingEntries : Weight(a) \in 1..6
    /\ \A a, b \in HeadingEntries :
           (Depth(TypeAt(a)) > 0 /\ Depth(TypeAt(a)) < Depth(TypeAt(b)))
           => Weight(a) < Weight(b)
    /\ CaptionHeadings

\* C24, amended: the heading line of a chapter, section, main_section,
\* subsection and subsubsection unit starts with 1, 2, 3, 4 and 5 "#"; the
\* heading of an item unit has no "#": it is '**N.** Title'; table and
\* figure headings have three "#" and the form 'Table N - Title',
\* 'Figure N - Title', wherever the unit stands.
C24_WeightGrowsWithDepthAboveItems ==
    /\ \A a \in HeadingEntries :
           LET u == sections[markdown_content[a].unit]
           IN /\ Depth(u.type) \in 1..5 => Weight(a) = Depth(u.type)
              /\ u.type = "item" =>
                     /\ Weight(a) = 0
                     /\ markdown_content[a].text
                            = <<"\n", "*", "*">> \o u.number \o <<".", "*", "*", " ">>
                              \o u.title \o <<"\n">>
              /\ u.type \in {"table", "figure"} => Weight(a) = 3
    /\ \A a, b \in HeadingEntries :
           (/\ Depth(TypeAt(a)) \in 1..5
            /\ Depth(TypeAt(b)) \in 1..5
            /\ Depth(TypeAt(a)) < Depth(TypeAt(b)))
           => Weight(a) < Weight(b)
    /\ CaptionHeadings

\* C24: the text with a unit of every type has been rendered: eight
\* headings, the one of the item without "#" and the one of the table, the
\* seventh unit, with three
C24_Witness ==
    /\ pc = "done"
    /\ lines = DepthLines
    /\ Len(sections) = 8
    /\ Cardinality(HeadingEntries) = 8
    /\ {Weight(a) : a \in HeadingEntries} = 0..5
    /\ \E a \in HeadingEntries : TypeAt(a) = "item" /\ Weight(a) = 0
    /\ \E a \in HeadingEntries :
           /\ markdown_content[a].unit = 7
           /\ TypeAt(a) = "table"
           /\ Weight(a) = 3

====
